---- MODULE Spec2Model ----
(***************************************************************************)
(* Verification model of qubex: the scoped frequency override of           *)
(* Measurement (measurement/measurement.py) and the LO/NCO frequency       *)
(* allocator of ExperimentSystem (backend/experiment_system.py).           *)
(*                                                                         *)
(* Hardware frequencies are integers counted in steps of 12.5 kHz, the     *)
(* largest unit in which every grid constant of the allocator and every    *)
(* qubit/resonator frequency used below is an integer.  A midpoint         *)
(* (a + b) / 2 is carried as the doubled value a + b, so that no rounding  *)
(* is introduced by the model.                                             *)
(***************************************************************************)
EXTENDS Integers, Sequences, FiniteSets, TLC

VARIABLES frequency, stack, exc, base, deviceFailed, event,
          ctrl, ro, crq, box, topo, alloc, seq, samples, meas

vars == <<frequency, stack, exc, base, deviceFailed, event, ctrl, ro, crq,
          box, topo, alloc, seq, samples, meas>>

scopeVars == <<frequency, stack, exc, base, deviceFailed, event>>

\* The parts of the state owned by the topology model, the allocation pass
\* and the sequence builder.
buildVars == <<box, topo, alloc, seq>>

\* The parts of the state owned by the models of _number_of_samples and of
\* the measurement calls.
measureVars == <<samples, meas>>

(***************************************************************************)
(* Bounds of the model.                                                    *)
(***************************************************************************)
MaxDepth == 2
MaxMapLen == 2
MaxSpectators == 3

(***************************************************************************)
(* Values of the parts that take no step in a specification.               *)
(***************************************************************************)
IdleCtrl == ctrl = [phase |-> "idle"]

IdleRo == ro = [phase |-> "idle"]

IdleCr == crq = [phase |-> "idle"]

IdleBox == box = [phase |-> "idle"]

IdleTopo == topo = [phase |-> "idle"]

IdleAlloc == alloc = [phase |-> "idle"]

IdleSeq == seq = [phase |-> "idle"]

IdleMeasure == samples = [phase |-> "idle"] /\ meas = [phase |-> "idle"]

(***************************************************************************)
(* Generic helpers.                                                        *)
(***************************************************************************)
Abs(x) == IF x < 0 THEN -x ELSE x

Range(s) == {s[i] : i \in 1..Len(s)}

(***************************************************************************)
(* Part 1.  Measurement.modified_frequencies                               *)
(***************************************************************************)

\* Labels of the targets of the experiment system, in the order of
\* ExperimentSystem.targets, which is the order of Measurement.targets.
TargetOrder == <<"Q00", "Q01">>

TargetLabels == Range(TargetOrder)

\* A label that is not a target of the experiment system.
UnknownLabels == {"Q99"}

Labels == TargetLabels \cup UnknownLabels

\* Frequencies a target is configured with or overridden to: 7.65135 GHz and
\* 8.0 GHz, in units of 12.5 kHz.
FreqValues == {612108, 640000}

\* An override map is a dict: its items in insertion order, keys distinct.
IsMap(m) == \A i, j \in 1..Len(m) : i # j => m[i][1] # m[j][1]

MapsOfLen(n) == {m \in [1..n -> Labels \X FreqValues] : IsMap(m)}

OverrideMaps == UNION {MapsOfLen(n) : n \in 0..MaxMapLen}

MapLabels(m) == {m[i][1] : i \in 1..Len(m)}

\* Measurement.targets: label -> Target, read for target.frequency.
targets(f) == [i \in 1..Len(TargetOrder) |-> <<TargetOrder[i], f[TargetOrder[i]]>>]

original_frequencies_stale(f, target_frequencies) ==
    SelectSeq([i \in 1..Len(TargetOrder) |->
                  <<TargetOrder[i],
                    IF \E k \in 1..Len(target_frequencies) :
                           target_frequencies[k][1] = TargetOrder[i]
                    THEN target_frequencies[
                           CHOOSE k \in 1..Len(target_frequencies) :
                               target_frequencies[k][1] = TargetOrder[i]][2]
                    ELSE f[TargetOrder[i]]>>],
              LAMBDA item : item[1] \in MapLabels(target_frequencies))

\* The dict comprehension on entry of modified_frequencies: the current
\* frequency of every known target whose label is a key of the map.
original_frequencies(f, target_frequencies) ==
    SelectSeq(targets(f),
              LAMBDA item : item[1] \in MapLabels(target_frequencies))

\* DeviceController.modify_target_frequencies, after its first n items have
\* been written: the frequency of each of these labels is the item's value.
modify_target_frequencies(f, m, n) ==
    [l \in TargetLabels |->
        IF \E i \in 1..n : m[i][1] = l
        THEN m[CHOOSE i \in 1..n : m[i][1] = l][2]
        ELSE f[l]]

\* Number of items the device call can write before it must fail: it stops
\* at the first label that names no target (lookup error).
Writable(m) ==
    IF \E i \in 1..Len(m) : m[i][1] \notin TargetLabels
    THEN (CHOOSE i \in 1..Len(m) :
              /\ m[i][1] \notin TargetLabels
              /\ \A j \in 1..(i - 1) : m[j][1] \in TargetLabels) - 1
    ELSE Len(m)

\* The device call completes only when every label is a target.
CanComplete(m) == Writable(m) = Len(m)

\* Numbers of items written when the device call fails: a communication
\* failure before one of its items, or the lookup error of the first unknown
\* label.
FailPoints(m) == {n \in 0..Writable(m) : n < Len(m)}

\* The maps a device call completes for, and the calls that fail: a map with
\* the number of items written before the failure.
CompletingMaps == {m \in OverrideMaps : CanComplete(m)}

FailingCalls == {c \in OverrideMaps \X (0..MaxMapLen) : c[2] \in FailPoints(c[1])}

\* The targets a map names, with the frequency each has in f.
NamedTargets(m, f) == [l \in MapLabels(m) \cap TargetLabels |-> f[l]]

Frame_all_targets(m, f) ==
    [map |-> m, original |-> targets(f), pre |-> NamedTargets(m, f)]

\* A suspended scope: its map, the saved original_frequencies and, for the
\* properties, the frequencies its named targets had before it was entered.
Frame(m, f) ==
    [map |-> m, original |-> original_frequencies(f, m),
     pre |-> NamedTargets(m, f)]

\* The last step: its kind, for the exit of a scope how it was left, and
\* whether the map of that scope named a target with another frequency than
\* the target had on entry.
Event(k, md, o) == [kind |-> k, mode |-> md, overrode |-> o]

\* The step of a scope whose entry failed, with the labels its map names.
FailedEntry(m) ==
    [kind |-> "entry_failed", mode |-> "none", overrode |-> FALSE,
     named |-> MapLabels(m)]

Overrides(fr) ==
    \E i \in 1..Len(fr.map) :
        /\ fr.map[i][1] \in TargetLabels
        /\ fr.map[i][2] # fr.pre[fr.map[i][1]]

InitScope ==
    /\ frequency \in [TargetLabels -> FreqValues]
    /\ base = frequency
    /\ stack = <<>>
    /\ exc = FALSE
    /\ deviceFailed = FALSE
    /\ event = Event("init", "none", FALSE)

IdleScope ==
    /\ frequency = [l \in TargetLabels |-> 612108]
    /\ base = frequency
    /\ stack = <<>>
    /\ exc = FALSE
    /\ deviceFailed = FALSE
    /\ event = Event("init", "none", FALSE)

\* Entry of the scope up to the yield, the device call having completed.
EnterScope(m) ==
    /\ ~exc
    /\ Len(stack) < MaxDepth
    /\ CanComplete(m)
    /\ frequency' = modify_target_frequencies(frequency, m, Len(m))
    /\ stack' = Append(stack, Frame(m, frequency))
    /\ event' = Event("enter", "none", FALSE)
    /\ UNCHANGED <<exc, base, deviceFailed>>
    /\ UNCHANGED <<ctrl, ro, crq, buildVars, measureVars>>

\* Entry of the scope when the device call fails after n items: the call is
\* made before the try statement, so the exception leaves the generator
\* without the finally clause being run.
EnterScopeFails(m, n) ==
    /\ ~exc
    /\ Len(stack) < MaxDepth
    /\ n \in FailPoints(m)
    /\ frequency' = modify_target_frequencies(frequency, m, n)
    /\ exc' = TRUE
    /\ deviceFailed' = TRUE
    /\ event' = FailedEntry(m)
    /\ UNCHANGED <<stack, base>>
    /\ UNCHANGED <<ctrl, ro, crq, buildVars, measureVars>>

\* The block of the innermost scope raises.
BodyRaises ==
    /\ ~exc
    /\ Len(stack) > 0
    /\ exc' = TRUE
    /\ event' = Event("raise", "none", FALSE)
    /\ UNCHANGED <<frequency, stack, base, deviceFailed>>
    /\ UNCHANGED <<ctrl, ro, crq, buildVars, measureVars>>

\* The finally clause of the innermost scope, the device call completing:
\* reached when the block ends or while an exception unwinds through it.
ExitScope ==
    /\ Len(stack) > 0
    /\ LET top == stack[Len(stack)] IN
          /\ frequency' = modify_target_frequencies(frequency, top.original,
                                                    Len(top.original))
          /\ event' = Event("exit", IF exc THEN "exception" ELSE "normal",
                            Overrides(top))
    /\ stack' = SubSeq(stack, 1, Len(stack) - 1)
    /\ UNCHANGED <<exc, base, deviceFailed>>
    /\ UNCHANGED <<ctrl, ro, crq, buildVars, measureVars>>

\* The finally clause of the innermost scope, the device call failing after
\* n items.
ExitScopeFails(n) ==
    /\ Len(stack) > 0
    /\ LET top == stack[Len(stack)] IN
          /\ n \in FailPoints(top.original)
          /\ frequency' = modify_target_frequencies(frequency, top.original, n)
          /\ event' = Event("exit", "restore_failed", Overrides(top))
    /\ stack' = SubSeq(stack, 1, Len(stack) - 1)
    /\ exc' = TRUE
    /\ deviceFailed' = TRUE
    /\ UNCHANGED base
    /\ UNCHANGED <<ctrl, ro, crq, buildVars, measureVars>>

\* The exception has left the outermost scope and the caller handles it.
Handled ==
    /\ exc
    /\ Len(stack) = 0
    /\ exc' = FALSE
    /\ deviceFailed' = FALSE
    /\ base' = frequency
    /\ event' = Event("handled", "none", FALSE)
    /\ UNCHANGED <<frequency, stack>>
    /\ UNCHANGED <<ctrl, ro, crq, buildVars, measureVars>>

\* C1: once a modified_frequencies scope has been left, by the normal end of
\* its block or by an exception raised inside the block, every target named
\* in its map has the frequency it had immediately before the scope was
\* entered.
C1_RestoredOnExit ==
    [][(event'.kind = "exit" /\ event'.mode \in {"normal", "exception"}) =>
           \A l \in MapLabels(stack[Len(stack)].map) \cap TargetLabels :
               frequency'[l] = stack[Len(stack)].pre[l]]_vars

\* A scope whose map really changed a frequency has been left by an exception
\* raised inside its block.
C1_Witness ==
    /\ event.kind = "exit"
    /\ event.mode = "exception"
    /\ event.overrode

\* C2: when a device call of a scoped override has failed, the call made on
\* scope entry included, then once the failure has left the outermost scope
\* no target is left with an overridden frequency.
C2_NoOverrideAfterFailure ==
    (Len(stack) = 0 /\ deviceFailed) => frequency = base

\* C30: a modified_frequencies scope changes the frequency of no target that
\* its override map does not name, neither on entry (the device call
\* completing or failing part-way) nor on exit, and the labels it writes back
\* on exit are labels of the map that are known targets.
C30_OnlyNamedTargets ==
    [][/\ event'.kind = "enter" =>
              \A l \in TargetLabels \ MapLabels(stack'[Len(stack')].map) :
                  frequency'[l] = frequency[l]
       /\ event'.kind = "entry_failed" =>
              \A l \in TargetLabels \ event'.named :
                  frequency'[l] = frequency[l]
       /\ event'.kind = "exit" =>
              LET top == stack[Len(stack)] IN
              /\ \A l \in TargetLabels \ MapLabels(top.map) :
                     frequency'[l] = frequency[l]
              /\ MapLabels(top.original)
                     \subseteq MapLabels(top.map) \cap TargetLabels]_vars

\* An inner scope whose map names a target and an unknown label has been
\* left while an outer scope is still open.
C30_Witness ==
    /\ event.kind = "exit"
    /\ event.overrode
    /\ Len(stack) > 0

(***************************************************************************)
(* Part 2.  ExperimentSystem.find_control_lo_nco and the CTRL branch of    *)
(* ExperimentSystem._configure_control_system                              *)
(***************************************************************************)

\* Keyword defaults of find_control_lo_nco, in units of 12.5 kHz.
CtrlDefaults ==
    [lo_min   |-> 640000,   \* 8_000_000_000
     lo_max   |-> 880000,   \* 11_000_000_000
     lo_step  |-> 40000,    \* 500_000_000
     nco_step |-> 1875,     \* 23_437_500
     cnco     |-> 180000,   \* 2_250_000_000
     fnco_min |-> -60000,   \* -750_000_000
     fnco_max |-> 60000,    \* +750_000_000
     max_diff |-> 160000]   \* 2_000_000_000

\* Keyword arguments the search is exercised with: the defaults, a tighter
\* image-rejection limit, a narrow grid whose upper ends are not grid points,
\* and two empty grids.
CtrlParamSets ==
    {CtrlDefaults,
     [CtrlDefaults EXCEPT !.max_diff = 40000],
     [CtrlDefaults EXCEPT !.lo_min = 700000, !.lo_max = 790000,
                          !.fnco_min = -3750, !.fnco_max = 4000],
     [CtrlDefaults EXCEPT !.lo_min = 900000],
     [CtrlDefaults EXCEPT !.fnco_min = 60001]}

\* Target frequencies (ge, ef, cr) the search is exercised with: undefined
\* (0), 7.29535, 7.65135, 8.0 and 9.5 GHz.
CtrlFreqs == {0, 583628, 612108, 640000, 760000}

ChannelCounts == {0, 1, 2, 3}

QubitLabels == {"Q00", "Q01"}

DEFAULT_CONTROL_VATT == 3072

DEFAULT_CONTROL_FSC == 40527

DEFAULT_LO_FREQ == 720000

DEFAULT_CNCO_FREQ == 120000

DEFAULT_FNCO_FREQ == 0

DEFAULT_VATT == 3072

DEFAULT_FULLSCALE_CURRENT == 40527

\* The control parameters of the configuration: per-qubit overrides.
control_params ==
    [control_vatt |-> [q \in {"Q00"} |-> 2048],
     control_fsc  |-> [q \in {"Q01"} |-> 36000]]

get_control_vatt(q) ==
    IF q \in DOMAIN control_params.control_vatt
    THEN control_params.control_vatt[q]
    ELSE DEFAULT_CONTROL_VATT

get_control_fsc(q) ==
    IF q \in DOMAIN control_params.control_fsc
    THEN control_params.control_fsc[q]
    ELSE DEFAULT_CONTROL_FSC

\* range(start, stop, step) of Python for a positive step, as a sequence.
PyRange(start, stop, step) ==
    [i \in 1..(IF stop > start THEN ((stop - start - 1) \div step) + 1 ELSE 0)
        |-> start + (i - 1) * step]

None == [none |-> TRUE, value |-> 0, diff |-> 0]

Best(v, d) == [none |-> FALSE, value |-> v, diff |-> d]

Max2(a, b) == IF a >= b THEN a ELSE b

Min2(a, b) == IF a <= b THEN a ELSE b

\* max(...) and min(...) of the frequencies of a non-empty list of targets.
RECURSIVE MaxSeq(_)
MaxSeq(s) == IF Len(s) = 1 THEN s[1] ELSE Max2(s[1], MaxSeq(Tail(s)))

RECURSIVE MinSeq(_)
MinSeq(s) == IF Len(s) = 1 THEN s[1] ELSE Min2(s[1], MinSeq(Tail(s)))

FTarget(st, br, f2) == [status |-> st, branch |-> br, f2 |-> f2]

f_target_swapped(n_channels, f_ge, f_ef, f_cr, max_diff) ==
    IF n_channels = 1
    THEN IF f_ge > 0 THEN FTarget("ok", "ge", 2 * f_ge)
                     ELSE FTarget("ok", "cr", 2 * f_cr)
    ELSE IF n_channels = 3
    THEN LET tgts == SelectSeq(<<f_ge, f_ef, f_cr>>, LAMBDA f : f > 0) IN
         IF Len(tgts) > 0
         THEN LET f_max == MaxSeq(tgts)
                  f_min == MinSeq(tgts)
              IN  IF f_max - f_min > max_diff
                  THEN IF f_ge < f_cr /\ f_cr < f_ge + max_diff
                       THEN FTarget("ok", "ge_cr", f_ge + f_ef)
                       ELSE FTarget("ok", "ge_ef", f_ge + f_cr)
                  ELSE FTarget("ok", "all", f_max + f_min)
         ELSE FTarget("ok", "zero", 0)
    ELSE FTarget("error", "invalid", 0)

f_target_nospread(n_channels, f_ge, f_ef, f_cr, max_diff) ==
    IF n_channels = 1
    THEN IF f_ge > 0 THEN FTarget("ok", "ge", 2 * f_ge)
                     ELSE FTarget("ok", "cr", 2 * f_cr)
    ELSE IF n_channels = 3
    THEN LET tgts == SelectSeq(<<f_ge, f_ef, f_cr>>, LAMBDA f : f > 0) IN
         IF Len(tgts) > 0
         THEN IF f_ge < f_cr /\ f_cr < f_ge + max_diff
              THEN FTarget("ok", "ge_cr", f_ge + f_cr)
              ELSE FTarget("ok", "ge_ef", f_ge + f_ef)
         ELSE FTarget("ok", "zero", 0)
    ELSE FTarget("error", "invalid", 0)

f_target_closer(n_channels, f_ge, f_ef, f_cr, max_diff) ==
    IF n_channels = 1
    THEN IF f_ge > 0 THEN FTarget("ok", "ge", 2 * f_ge)
                     ELSE FTarget("ok", "cr", 2 * f_cr)
    ELSE IF n_channels = 3
    THEN LET tgts == SelectSeq(<<f_ge, f_ef, f_cr>>, LAMBDA f : f > 0) IN
         IF Len(tgts) > 0
         THEN LET f_max == MaxSeq(tgts)
                  f_min == MinSeq(tgts)
              IN  IF f_max - f_min > max_diff
                  THEN IF Abs(f_cr - f_ge) < max_diff
                       THEN FTarget("ok", "ge_cr", f_ge + f_cr)
                       ELSE FTarget("ok", "ge_ef", f_ge + f_ef)
                  ELSE FTarget("ok", "all", f_max + f_min)
         ELSE FTarget("ok", "zero", 0)
    ELSE FTarget("error", "invalid", 0)

f_target_any_count(n_channels, f_ge, f_ef, f_cr, max_diff) ==
    IF n_channels = 1
    THEN IF f_ge > 0 THEN FTarget("ok", "ge", 2 * f_ge)
                     ELSE FTarget("ok", "cr", 2 * f_cr)
    ELSE LET tgts == SelectSeq(<<f_ge, f_ef, f_cr>>, LAMBDA f : f > 0) IN
         IF Len(tgts) > 0
         THEN LET f_max == MaxSeq(tgts)
                  f_min == MinSeq(tgts)
              IN  IF f_max - f_min > max_diff
                  THEN IF f_ge < f_cr /\ f_cr < f_ge + max_diff
                       THEN FTarget("ok", "ge_cr", f_ge + f_cr)
                       ELSE FTarget("ok", "ge_ef", f_ge + f_ef)
                  ELSE FTarget("ok", "all", f_max + f_min)
         ELSE FTarget("ok", "zero", 0)

\* The centre frequency of find_control_lo_nco, doubled, with the branch of
\* the if statement that set it; "error" is the ValueError of an unsupported
\* channel count.
f_target(n_channels, f_ge, f_ef, f_cr, max_diff) ==
    IF n_channels = 1
    THEN IF f_ge > 0 THEN FTarget("ok", "ge", 2 * f_ge)
                     ELSE FTarget("ok", "cr", 2 * f_cr)
    ELSE IF n_channels = 3
    THEN LET tgts == SelectSeq(<<f_ge, f_ef, f_cr>>, LAMBDA f : f > 0) IN
         IF Len(tgts) > 0
         THEN LET f_max == MaxSeq(tgts)
                  f_min == MinSeq(tgts)
              IN  IF f_max - f_min > max_diff
                  THEN IF f_ge < f_cr /\ f_cr < f_ge + max_diff
                       THEN FTarget("ok", "ge_cr", f_ge + f_cr)
                       ELSE FTarget("ok", "ge_ef", f_ge + f_ef)
                  ELSE FTarget("ok", "all", f_max + f_min)
         ELSE FTarget("ok", "zero", 0)
    ELSE FTarget("error", "invalid", 0)

\* The loop over the LO grid from its i-th point on: a candidate replaces
\* the best value when its |lo - cnco - f_target| (doubled) is strictly
\* smaller.
RECURSIVE lo_loop(_, _, _, _, _)
lo_loop(grid, i, cnco, f2, best) ==
    IF i > Len(grid) THEN best
    ELSE LET lo == grid[i]
             current_value == lo - cnco
             current_diff == Abs(2 * current_value - f2)
         IN  IF best.none \/ current_diff < best.diff
             THEN lo_loop(grid, i + 1, cnco, f2, Best(lo, current_diff))
             ELSE lo_loop(grid, i + 1, cnco, f2, best)

find_lo_first_point(p, f2) ==
    LET grid == PyRange(p.lo_min, p.lo_max + 1, p.lo_step) IN
    IF Len(grid) = 0 THEN None
    ELSE Best(grid[1], Abs(2 * (grid[1] - p.cnco) - f2))

\* The search of find_control_lo_nco for best_lo; none is the ValueError.
find_lo(p, f2) ==
    lo_loop(PyRange(p.lo_min, p.lo_max + 1, p.lo_step), 1, p.cnco, f2, None)

\* The loop of find_fnco from the i-th grid point on.
RECURSIVE fnco_loop(_, _, _, _, _, _)
fnco_loop(grid, i, best_lo, cnco, target_frequency, best) ==
    IF i > Len(grid) THEN best
    ELSE LET fnco == grid[i]
             current_value == Abs(best_lo - cnco - fnco)
             current_diff == Abs(current_value - target_frequency)
         IN  IF best.none \/ current_diff < best.diff
             THEN fnco_loop(grid, i + 1, best_lo, cnco, target_frequency,
                            Best(fnco, current_diff))
             ELSE fnco_loop(grid, i + 1, best_lo, cnco, target_frequency, best)

RECURSIVE fnco_loop_sum(_, _, _, _, _, _)
fnco_loop_sum(grid, i, best_lo, cnco, target_frequency, best) ==
    IF i > Len(grid) THEN best
    ELSE LET fnco == grid[i]
             current_value == Abs(best_lo - cnco + fnco)
             current_diff == Abs(current_value - target_frequency)
         IN  IF best.none \/ current_diff < best.diff
             THEN fnco_loop_sum(grid, i + 1, best_lo, cnco, target_frequency,
                                Best(fnco, current_diff))
             ELSE fnco_loop_sum(grid, i + 1, best_lo, cnco, target_frequency,
                                best)

find_fnco_sum(p, best_lo, target_frequency) ==
    fnco_loop_sum(PyRange(p.fnco_min, p.fnco_max + 1, p.nco_step), 1,
                  best_lo, p.cnco, target_frequency, None)

\* find_fnco of find_control_lo_nco; none is the ValueError.
find_fnco(p, best_lo, target_frequency) ==
    fnco_loop(PyRange(p.fnco_min, p.fnco_max + 1, p.nco_step), 1,
              best_lo, p.cnco, target_frequency, None)

CtrlResult(st, ft, lo, cnco, fncos) ==
    [status |-> st, branch |-> ft.branch, f_target2 |-> ft.f2,
     lo |-> lo, cnco |-> cnco, fncos |-> fncos]

\* find_control_lo_nco: (lo, cnco, (fnco_ge, fnco_ef, fnco_cr)) or an error.
find_control_lo_nco(n_channels, f_ge, f_ef, f_cr, p) ==
    LET ft == f_target(n_channels, f_ge, f_ef, f_cr, p.max_diff)
        lo_found == find_lo(p, ft.f2)
        fnco_ge == find_fnco(p, lo_found.value, f_ge)
        fnco_ef == find_fnco(p, lo_found.value, f_ef)
        fnco_cr == find_fnco(p, lo_found.value, f_cr)
    IN  IF ft.status = "error" \/ lo_found.none \/ fnco_ge.none
        THEN CtrlResult("error", ft, 0, 0, <<0, 0, 0>>)
        ELSE IF n_channels = 1
        THEN CtrlResult("ok", ft, lo_found.value, p.cnco,
                        <<fnco_ge.value, 0, 0>>)
        ELSE CtrlResult("ok", ft, lo_found.value, p.cnco,
                        <<fnco_ge.value, fnco_ef.value, fnco_cr.value>>)

\* A CTRL GenPort as create_ports builds it, with n_channels channels.
NewCtrlPort(n_channels) ==
    [rfswitch |-> "pass", lo_freq |-> DEFAULT_LO_FREQ,
     cnco_freq |-> DEFAULT_CNCO_FREQ, sideband |-> "L",
     vatt |-> DEFAULT_VATT, fullscale_current |-> DEFAULT_FULLSCALE_CURRENT,
     fnco_freq |-> [i \in 1..n_channels |-> DEFAULT_FNCO_FREQ]]

NoResult == CtrlResult("none", FTarget("none", "none", 0), 0, 0, <<0, 0, 0>>)

InitControl ==
    /\ IdleScope
    /\ IdleRo
    /\ IdleCr
    /\ IdleBox /\ IdleTopo /\ IdleAlloc /\ IdleSeq
    /\ IdleMeasure
    /\ \E q \in QubitLabels, n \in ChannelCounts, p \in CtrlParamSets :
       \E f_ge \in CtrlFreqs, f_ef \in CtrlFreqs, f_cr \in CtrlFreqs :
          ctrl = [phase |-> "wired", qubit |-> q, n_channels |-> n, params |-> p,
                  f_ge |-> f_ge, f_ef |-> f_ef, f_cr |-> f_cr,
                  port |-> NewCtrlPort(n), result |-> NoResult]

\* The CTRL branch of _configure_control_system for one wired port, the
\* search returning values.
configure_control_port ==
    /\ ctrl.phase = "wired"
    /\ LET r == find_control_lo_nco(ctrl.n_channels, ctrl.f_ge, ctrl.f_ef,
                                    ctrl.f_cr, ctrl.params)
       IN  /\ r.status = "ok"
           /\ ctrl' = [ctrl EXCEPT
                  !.phase = "configured",
                  !.result = r,
                  !.port = [rfswitch |-> "pass",
                            lo_freq |-> r.lo,
                            cnco_freq |-> r.cnco,
                            sideband |-> "L",
                            vatt |-> get_control_vatt(ctrl.qubit),
                            fullscale_current |-> get_control_fsc(ctrl.qubit),
                            fnco_freq |-> [i \in 1..ctrl.n_channels |->
                                              r.fncos[i]]]]
    /\ UNCHANGED <<scopeVars, ro, crq, buildVars, measureVars>>

\* The CTRL branch of _configure_control_system for one wired port, the
\* search raising: only rfswitch has been assigned.
configure_control_port_raises ==
    /\ ctrl.phase = "wired"
    /\ LET r == find_control_lo_nco(ctrl.n_channels, ctrl.f_ge, ctrl.f_ef,
                                    ctrl.f_cr, ctrl.params)
       IN  /\ r.status = "error"
           /\ ctrl' = [ctrl EXCEPT
                  !.phase = "raised",
                  !.result = r,
                  !.port = [ctrl.port EXCEPT !.rfswitch = "pass"]]
    /\ UNCHANGED <<scopeVars, ro, crq, buildVars, measureVars>>

NextControl ==
    \/ configure_control_port
    \/ configure_control_port_raises

SpecControl == InitControl /\ [][NextControl]_vars

(***************************************************************************)
(* Properties of the control allocation.                                   *)
(***************************************************************************)

\* The port of the C3 example: 3 channels, f_ge = 7.65135 GHz,
\* f_ef = 7.29535 GHz, f_cr = 8 GHz.
IsExamplePort ==
    /\ ctrl.phase = "configured"
    /\ ctrl.n_channels = 3
    /\ ctrl.f_ge = 612108
    /\ ctrl.f_ef = 583628
    /\ ctrl.f_cr = 640000

\* C3 as stated: with the default parameters the example port is centred on
\* the ge/cr pair, f_target = (f_ge + f_cr) / 2.
C3_Original ==
    (IsExamplePort /\ ctrl.params = CtrlDefaults) =>
        ctrl.result.f_target2 = ctrl.f_ge + ctrl.f_cr

\* C3 amended: with the default parameters the spread of the example port
\* (f_cr - f_ef = 0.70465 GHz) does not exceed max_diff (2 GHz), so the
\* centre is the midpoint of the extremes, f_target = (f_cr + f_ef) / 2; the
\* ge/cr midpoint is used once max_diff is below the spread (0.5 GHz).
C3_ExampleCentre ==
    /\ (IsExamplePort /\ ctrl.params = CtrlDefaults) =>
           /\ ctrl.result.branch = "all"
           /\ ctrl.result.f_target2 = ctrl.f_cr + ctrl.f_ef
    /\ (IsExamplePort /\ ctrl.params = [CtrlDefaults EXCEPT !.max_diff = 40000]) =>
           /\ ctrl.result.branch = "ge_cr"
           /\ ctrl.result.f_target2 = ctrl.f_ge + ctrl.f_cr

C3_Witness == IsExamplePort /\ ctrl.params = CtrlDefaults

\* The positive ones of the three line frequencies and their extremes.
PositiveLines == {f \in {ctrl.f_ge, ctrl.f_ef, ctrl.f_cr} : f > 0}

LinesMax == CHOOSE x \in PositiveLines : \A y \in PositiveLines : y <= x

LinesMin == CHOOSE x \in PositiveLines : \A y \in PositiveLines : x <= y

SpreadExceeds ==
    /\ ctrl.n_channels = 3
    /\ PositiveLines # {}
    /\ LinesMax - LinesMin > ctrl.params.max_diff

CrInWindow ==
    ctrl.f_ge < ctrl.f_cr /\ ctrl.f_cr < ctrl.f_ge + ctrl.params.max_diff

\* C4: the centre frequency follows the stated rule: for 1 channel f_ge if
\* positive, else f_cr; for 3 channels the midpoint of the extremes of the
\* positive lines when their spread is within max_diff, otherwise the ge/cr
\* midpoint when f_ge < f_cr < f_ge + max_diff, otherwise the ge/ef midpoint.
C4_CentreRule ==
    ctrl.phase = "configured" =>
        /\ ctrl.n_channels = 1 =>
               ctrl.result.f_target2 =
                   (IF ctrl.f_ge > 0 THEN 2 * ctrl.f_ge ELSE 2 * ctrl.f_cr)
        /\ (ctrl.n_channels = 3 /\ PositiveLines # {}) =>
               ctrl.result.f_target2 =
                   (IF LinesMax - LinesMin <= ctrl.params.max_diff
                    THEN LinesMax + LinesMin
                    ELSE IF CrInWindow THEN ctrl.f_ge + ctrl.f_cr
                    ELSE ctrl.f_ge + ctrl.f_ef)

\* A 3-channel port whose spread exceeds max_diff and whose cr line is
\* outside the window has been centred.
C4_Witness ==
    /\ ctrl.phase = "configured"
    /\ SpreadExceeds
    /\ ~CrInWindow
    /\ ctrl.f_ge > 0 /\ ctrl.f_ef > 0 /\ ctrl.f_cr > 0

\* C5 as stated: whenever the spread of the (defined) lines exceeds max_diff,
\* the centred pair is the one whose two frequencies are closer to each other.
C5_Original ==
    (/\ ctrl.phase = "configured"
     /\ SpreadExceeds
     /\ ctrl.f_ge > 0 /\ ctrl.f_ef > 0 /\ ctrl.f_cr > 0) =>
        /\ ctrl.result.branch = "ge_cr" =>
               Abs(ctrl.f_cr - ctrl.f_ge) <= Abs(ctrl.f_ef - ctrl.f_ge)
        /\ ctrl.result.branch = "ge_ef" =>
               Abs(ctrl.f_ef - ctrl.f_ge) <= Abs(ctrl.f_cr - ctrl.f_ge)

\* C5 amended: whenever the spread exceeds max_diff, the centred pair is
\* ge/cr exactly when f_ge < f_cr < f_ge + max_diff, in which case ge and cr
\* are less than max_diff apart, and ge/ef otherwise.
C5_PairRule ==
    (ctrl.phase = "configured" /\ SpreadExceeds) =>
        /\ ctrl.result.branch \in {"ge_cr", "ge_ef"}
        /\ ctrl.result.branch = "ge_cr" <=> CrInWindow
        /\ ctrl.result.branch = "ge_cr" =>
               /\ Abs(ctrl.f_cr - ctrl.f_ge) < ctrl.params.max_diff
               /\ ctrl.result.f_target2 = ctrl.f_ge + ctrl.f_cr
        /\ ctrl.result.branch = "ge_ef" =>
               ctrl.result.f_target2 = ctrl.f_ge + ctrl.f_ef

\* The ge/cr pair has been centred although ge/ef is the closer pair.
C5_Witness ==
    /\ ctrl.phase = "configured"
    /\ SpreadExceeds
    /\ ctrl.result.branch = "ge_cr"
    /\ Abs(ctrl.f_ef - ctrl.f_ge) < Abs(ctrl.f_cr - ctrl.f_ge)

\* The points lo_min, lo_min + lo_step, ... not above lo_max.
LoGrid ==
    IF ctrl.params.lo_max < ctrl.params.lo_min THEN {}
    ELSE {ctrl.params.lo_min + k * ctrl.params.lo_step :
            k \in 0..((ctrl.params.lo_max - ctrl.params.lo_min)
                          \div ctrl.params.lo_step)}

LoError(lo) == Abs(2 * (lo - ctrl.params.cnco) - ctrl.result.f_target2)

\* C6: the returned LO is a point of the LO grid with the least
\* |lo - cnco - f_target|, the CNCO is the one given, and the port carries
\* this one LO/CNCO pair for all of its channels.
C6_LoOptimal ==
    ctrl.phase = "configured" =>
        /\ ctrl.result.lo \in LoGrid
        /\ \A g \in LoGrid : LoError(ctrl.result.lo) <= LoError(g)
        /\ ctrl.result.cnco = ctrl.params.cnco
        /\ ctrl.port.lo_freq = ctrl.result.lo
        /\ ctrl.port.cnco_freq = ctrl.result.cnco
        /\ DOMAIN ctrl.port.fnco_freq = 1..ctrl.n_channels

\* A port has been given an LO that is not the first point of the grid.
C6_Witness ==
    /\ ctrl.phase = "configured"
    /\ ctrl.n_channels = 3
    /\ ctrl.result.lo > ctrl.params.lo_min
    /\ ctrl.port.lo_freq = ctrl.result.lo

\* The points fnco_min, fnco_min + nco_step, ... not above fnco_max.
FncoGrid ==
    IF ctrl.params.fnco_max < ctrl.params.fnco_min THEN {}
    ELSE {ctrl.params.fnco_min + k * ctrl.params.nco_step :
            k \in 0..((ctrl.params.fnco_max - ctrl.params.fnco_min)
                          \div ctrl.params.nco_step)}

LineFrequency(k) ==
    IF k = 1 THEN ctrl.f_ge ELSE IF k = 2 THEN ctrl.f_ef ELSE ctrl.f_cr

FncoError(fnco, k) ==
    Abs(Abs(ctrl.result.lo - ctrl.result.cnco - fnco) - LineFrequency(k))

\* C7: on a 3-channel port the FNCO of each line is the point of the FNCO
\* grid that minimises | |lo - cnco - fnco| - f_line | for its own line: the
\* lowest such point, so it is fixed by the LO and the line's own frequency.
C7_FncoPerLine ==
    (ctrl.phase = "configured" /\ ctrl.n_channels = 3) =>
        \A k \in 1..3 :
            /\ ctrl.result.fncos[k] \in FncoGrid
            /\ \A g \in FncoGrid :
                   /\ FncoError(ctrl.result.fncos[k], k) <= FncoError(g, k)
                   /\ g < ctrl.result.fncos[k] =>
                          FncoError(ctrl.result.fncos[k], k) < FncoError(g, k)
            /\ ctrl.port.fnco_freq[k] = ctrl.result.fncos[k]

\* A 3-channel port has three different FNCOs, none at an end of the grid.
C7_Witness ==
    /\ ctrl.phase = "configured"
    /\ ctrl.n_channels = 3
    /\ ctrl.params = CtrlDefaults
    /\ Cardinality({ctrl.result.fncos[k] : k \in 1..3}) = 3
    /\ \A k \in 1..3 :
           /\ ctrl.result.fncos[k] > ctrl.params.fnco_min
           /\ ctrl.result.fncos[k] < ctrl.params.fnco_max

\* C18: find_control_lo_nco called with a number of channels other than 1
\* or 3 ends in an error and returns no frequency values, whatever the
\* frequencies of the qubit are.
C18_InvalidChannelCount ==
    ctrl.phase # "idle" /\ ctrl.n_channels \notin {1, 3} =>
        /\ ctrl.phase # "configured"
        /\ ctrl.result.status # "ok"
        /\ ctrl.phase = "raised" => ctrl.result.branch = "invalid"

\* A call with 2 channels, all three frequencies defined and the default
\* search grids has raised.
C18_Witness ==
    /\ ctrl.phase = "raised"
    /\ ctrl.n_channels = 2
    /\ ctrl.params = CtrlDefaults
    /\ ctrl.f_ge > 0 /\ ctrl.f_ef > 0 /\ ctrl.f_cr > 0

(***************************************************************************)
(* Part 3.  ExperimentSystem.find_readout_lo_nco                           *)
(***************************************************************************)

\* Keyword defaults of find_readout_lo_nco, in units of 12.5 kHz.
RoDefaults ==
    [lo_min   |-> 640000,   \* 8_000_000_000
     lo_max   |-> 880000,   \* 11_000_000_000
     lo_step  |-> 40000,    \* 500_000_000
     nco_step |-> 1875,     \* 23_437_500
     cnco     |-> 120000,   \* 1_500_000_000
     fnco_min |-> -18750,   \* -234_375_000
     fnco_max |-> 18750]    \* +234_375_000

\* Keyword arguments the search is exercised with: the defaults, a grid whose
\* upper ends are not grid points, and an empty LO grid.
RoParamSets ==
    {RoDefaults,
     [RoDefaults EXCEPT !.lo_min = 660000, !.lo_max = 730000,
                        !.fnco_min = -3750, !.fnco_max = 4000],
     [RoDefaults EXCEPT !.lo_min = 900000]}

\* Resonator frequencies the search is exercised with: 9.902, 10.0,
\* 10.0234375, 10.0315, 10.1085 and 10.173 GHz.
RoFreqs == {792160, 800000, 801875, 802520, 808680, 813840}

\* A mux has 4 resonators.
MuxSize == 4

readout_target_mean(frequencies) ==
    (frequencies[1] + frequencies[2] + frequencies[3] + frequencies[4]) \div 2

\* target_frequency of find_readout_lo_nco, doubled: max + min of the
\* resonator frequencies of the mux.
readout_target(frequencies) == MaxSeq(frequencies) + MinSeq(frequencies)

\* The inner loop over the FNCO grid, from its j-th point on, for one lo.
RECURSIVE readout_fnco_loop(_, _, _, _, _, _)
readout_fnco_loop(fgrid, j, lo, cnco, t2, best) ==
    IF j > Len(fgrid) THEN best
    ELSE LET fnco == fgrid[j]
             current_value == lo + cnco + fnco
             current_diff == Abs(2 * current_value - t2)
         IN  IF best.none \/ current_diff < best.diff
             THEN readout_fnco_loop(fgrid, j + 1, lo, cnco, t2,
                                    Best(<<lo, fnco>>, current_diff))
             ELSE readout_fnco_loop(fgrid, j + 1, lo, cnco, t2, best)

RECURSIVE readout_fnco_loop_minus(_, _, _, _, _, _)
readout_fnco_loop_minus(fgrid, j, lo, cnco, t2, best) ==
    IF j > Len(fgrid) THEN best
    ELSE LET fnco == fgrid[j]
             current_value == lo - cnco + fnco
             current_diff == Abs(2 * current_value - t2)
         IN  IF best.none \/ current_diff < best.diff
             THEN readout_fnco_loop_minus(fgrid, j + 1, lo, cnco, t2,
                                          Best(<<lo, fnco>>, current_diff))
             ELSE readout_fnco_loop_minus(fgrid, j + 1, lo, cnco, t2, best)

\* The outer loop over the LO grid, from its i-th point on.
RECURSIVE readout_lo_loop(_, _, _, _, _, _)
readout_lo_loop(lgrid, i, fgrid, cnco, t2, best) ==
    IF i > Len(lgrid) THEN best
    ELSE LET inner == readout_fnco_loop(fgrid, 1, lgrid[i], cnco, t2, best)
         IN  IF inner.none
             THEN readout_lo_loop(lgrid, i + 1, fgrid, cnco, t2, None)
             ELSE readout_lo_loop(lgrid, i + 1, fgrid, cnco, t2, inner)

RECURSIVE readout_lo_loop_minus(_, _, _, _, _, _)
readout_lo_loop_minus(lgrid, i, fgrid, cnco, t2, best) ==
    IF i > Len(lgrid) THEN best
    ELSE LET inner == readout_fnco_loop_minus(fgrid, 1, lgrid[i], cnco, t2,
                                              best)
         IN  IF inner.none
             THEN readout_lo_loop_minus(lgrid, i + 1, fgrid, cnco, t2, None)
             ELSE readout_lo_loop_minus(lgrid, i + 1, fgrid, cnco, t2, inner)

RoResult(st, t2, lo, cnco, fnco) ==
    [status |-> st, target2 |-> t2, lo |-> lo, cnco |-> cnco, fnco |-> fnco]

find_readout_lo_nco_minus(frequencies, p) ==
    LET t2 == readout_target(frequencies)
        found == readout_lo_loop_minus(
                     PyRange(p.lo_min, p.lo_max + 1, p.lo_step), 1,
                     PyRange(p.fnco_min, p.fnco_max + 1, p.nco_step),
                     p.cnco, t2, None)
    IN  IF found.none THEN RoResult("error", t2, 0, 0, 0)
        ELSE RoResult("ok", t2, found.value[1], p.cnco, found.value[2])

\* find_readout_lo_nco: (best_lo, cnco, best_fnco) or the ValueError.
find_readout_lo_nco(frequencies, p) ==
    LET t2 == readout_target(frequencies)
        found == readout_lo_loop(
                     PyRange(p.lo_min, p.lo_max + 1, p.lo_step), 1,
                     PyRange(p.fnco_min, p.fnco_max + 1, p.nco_step),
                     p.cnco, t2, None)
    IN  IF found.none THEN RoResult("error", t2, 0, 0, 0)
        ELSE RoResult("ok", t2, found.value[1], p.cnco, found.value[2])

InitReadout ==
    /\ IdleScope
    /\ IdleCtrl
    /\ IdleCr
    /\ IdleBox /\ IdleTopo /\ IdleAlloc /\ IdleSeq
    /\ IdleMeasure
    /\ \E fs \in [1..MuxSize -> RoFreqs], p \in RoParamSets :
          ro = [phase |-> "called", resonators |-> fs, params |-> p,
                result |-> RoResult("none", 0, 0, 0, 0)]

\* A call of find_readout_lo_nco that returns.
find_readout_returns ==
    /\ ro.phase = "called"
    /\ LET r == find_readout_lo_nco(ro.resonators, ro.params) IN
          /\ r.status = "ok"
          /\ ro' = [ro EXCEPT !.phase = "returned", !.result = r]
    /\ UNCHANGED <<scopeVars, ctrl, crq, buildVars, measureVars>>

\* A call of find_readout_lo_nco that raises.
find_readout_raises ==
    /\ ro.phase = "called"
    /\ LET r == find_readout_lo_nco(ro.resonators, ro.params) IN
          /\ r.status = "error"
          /\ ro' = [ro EXCEPT !.phase = "raised", !.result = r]
    /\ UNCHANGED <<scopeVars, ctrl, crq, buildVars, measureVars>>

NextReadout ==
    \/ find_readout_returns
    \/ find_readout_raises

SpecReadout == InitReadout /\ [][NextReadout]_vars

RoLoGrid ==
    IF ro.params.lo_max < ro.params.lo_min THEN {}
    ELSE {ro.params.lo_min + k * ro.params.lo_step :
            k \in 0..((ro.params.lo_max - ro.params.lo_min)
                          \div ro.params.lo_step)}

RoFncoGrid ==
    IF ro.params.fnco_max < ro.params.fnco_min THEN {}
    ELSE {ro.params.fnco_min + k * ro.params.nco_step :
            k \in 0..((ro.params.fnco_max - ro.params.fnco_min)
                          \div ro.params.nco_step)}

\* Twice the midpoint of the largest and the smallest resonator frequency.
RoMidpoint2 ==
    LET S == Range(ro.resonators) IN
    (CHOOSE x \in S : \A y \in S : y <= x)
        + (CHOOSE x \in S : \A y \in S : x <= y)

RoError(lo, fnco) == Abs(2 * (lo + ro.params.cnco + fnco) - RoMidpoint2)

\* C8: find_readout_lo_nco returns the given cnco and a pair (lo, fnco) of
\* the LO grid times the FNCO grid such that no other pair of the grids has a
\* smaller |lo + cnco + fnco - target|, target being the midpoint of the
\* largest and the smallest resonator frequency.
C8_ReadoutOptimal ==
    ro.phase = "returned" =>
        /\ ro.result.cnco = ro.params.cnco
        /\ ro.result.lo \in RoLoGrid
        /\ ro.result.fnco \in RoFncoGrid
        /\ \A lo \in RoLoGrid : \A fnco \in RoFncoGrid :
               RoError(ro.result.lo, ro.result.fnco) <= RoError(lo, fnco)

\* A search has returned for a mux of four different resonator frequencies,
\* away from the ends of both grids.
C8_Witness ==
    /\ ro.phase = "returned"
    /\ Cardinality(Range(ro.resonators)) = MuxSize
    /\ ro.result.lo > ro.params.lo_min
    /\ ro.result.fnco > ro.params.fnco_min
    /\ ro.result.fnco < ro.params.fnco_max

\* The mux of the C9 example: resonators at 9.902, 10.1085, 10.173 and
\* 10.0315 GHz, searched with the default parameters.
IsExampleMux ==
    /\ ro.phase = "returned"
    /\ ro.resonators = <<792160, 808680, 813840, 802520>>
    /\ ro.params = RoDefaults

\* C9: for the example mux the realised frequency lo + cnco + fnco is within
\* nco_step / 2 of the midpoint, and lo is a multiple of lo_step inside
\* [lo_min, lo_max].
C9_ExampleMux ==
    IsExampleMux =>
        /\ Abs(2 * (ro.result.lo + ro.result.cnco + ro.result.fnco)
                 - (813840 + 792160)) <= ro.params.nco_step
        /\ ro.result.lo % ro.params.lo_step = 0
        /\ ro.result.lo >= ro.params.lo_min
        /\ ro.result.lo <= ro.params.lo_max

C9_Witness == IsExampleMux /\ ro.result.lo = 680000 /\ ro.result.fnco = 3750

(***************************************************************************)
(* Part 4.  ExperimentSystem._calc_cr_target_frequency                     *)
(***************************************************************************)

\* ge frequencies of qubits: undefined (0), 7.65135, 8.0 and 9.5 GHz.
GeFreqs == {0, 612108, 640000, 760000}

SpectatorLists == UNION {[1..n -> GeFreqs] : n \in 0..MaxSpectators}

RECURSIVE SumSeq(_)
SumSeq(s) == IF Len(s) = 0 THEN 0 ELSE s[1] + SumSeq(Tail(s))

\* A frequency that is the quotient num / den.
Quotient(n, d) == [num |-> n, den |-> d]

calc_cr_target_frequency_nonneg(ge_frequency, spectators) ==
    LET frequencies == SelectSeq(spectators, LAMBDA f : f >= 0) IN
    IF Len(frequencies) = 0 THEN Quotient(ge_frequency, 1)
    ELSE Quotient(SumSeq(frequencies), Len(frequencies))

\* _calc_cr_target_frequency for a qubit with the given ge frequency and the
\* ge frequencies of its spectator qubits: sum(frequencies) / len(frequencies).
calc_cr_target_frequency(ge_frequency, spectators) ==
    LET frequencies == SelectSeq(spectators, LAMBDA f : f > 0) IN
    IF Len(frequencies) = 0 THEN Quotient(ge_frequency, 1)
    ELSE Quotient(SumSeq(frequencies), Len(frequencies))

InitCr ==
    /\ IdleScope
    /\ IdleCtrl
    /\ IdleRo
    /\ IdleBox /\ IdleTopo /\ IdleAlloc /\ IdleSeq
    /\ IdleMeasure
    /\ \E g \in GeFreqs, sp \in SpectatorLists :
          crq = [phase |-> "called", ge_frequency |-> g, spectators |-> sp,
                 result |-> Quotient(0, 1)]

\* The cr target of one qubit is created (_create_cr_target_dict).
create_cr_target ==
    /\ crq.phase = "called"
    /\ crq' = [crq EXCEPT
          !.phase = "returned",
          !.result = calc_cr_target_frequency(crq.ge_frequency,
                                              crq.spectators)]
    /\ UNCHANGED <<scopeVars, ctrl, ro, buildVars, measureVars>>

NextCr == create_cr_target

SpecCr == InitCr /\ [][NextCr]_vars

\* Positions of the spectators whose ge frequency is positive.
PositiveSpectators == {i \in 1..Len(crq.spectators) : crq.spectators[i] > 0}

RECURSIVE SumAt(_)
SumAt(I) ==
    IF I = {} THEN 0
    ELSE LET i == CHOOSE x \in I : TRUE
         IN  crq.spectators[i] + SumAt(I \ {i})

\* C10: the cr target frequency is the arithmetic mean of the ge frequencies
\* of the spectators with a positive ge frequency, and the qubit's own ge
\* frequency when there is no such spectator.
C10_CrTargetMean ==
    crq.phase = "returned" =>
        IF PositiveSpectators = {}
        THEN crq.result.num = crq.ge_frequency * crq.result.den
        ELSE crq.result.num * Cardinality(PositiveSpectators)
                 = SumAt(PositiveSpectators) * crq.result.den

\* A qubit with a spectator of undefined frequency among defined ones.
C10_Witness ==
    /\ crq.phase = "returned"
    /\ Cardinality(PositiveSpectators) >= 2
    /\ \E i \in 1..Len(crq.spectators) : crq.spectators[i] = 0
    /\ \E i, j \in PositiveSpectators : crq.spectators[i] # crq.spectators[j]

(***************************************************************************)
(* Part 5.  create_ports (backend/qube_system.py): the port list of a box  *)
(* built from the tables of its BoxType.  A table is the sequence of its   *)
(* entries in dict order; entry i belongs to port number i - 1.            *)
(***************************************************************************)
BoxTypes ==
    {"QUEL1_A", "QUEL1_B", "QUBE_RIKEN_A", "QUBE_RIKEN_B", "QUBE_OU_A",
     "QUBE_OU_B"}

PortTypes ==
    {"NA", "READ_IN", "READ_OUT", "CTRL", "PUMP", "MNTR_IN", "MNTR_OUT"}

BoxIds == {"Q73A", "U10B", "R21B"}

PORT_MAPPING ==
    [QUEL1_A |->
        <<"READ_IN", "READ_OUT", "CTRL", "PUMP", "CTRL", "MNTR_IN",
          "MNTR_OUT", "READ_IN", "READ_OUT", "CTRL", "PUMP", "CTRL",
          "MNTR_IN", "MNTR_OUT">>,
     QUEL1_B |->
        <<"NA", "CTRL", "CTRL", "CTRL", "CTRL", "MNTR_IN", "MNTR_OUT",
          "NA", "CTRL", "CTRL", "CTRL", "CTRL", "MNTR_IN", "MNTR_OUT">>,
     QUBE_RIKEN_A |->
        <<"READ_OUT", "READ_IN", "PUMP", "MNTR_OUT", "MNTR_IN", "CTRL",
          "CTRL", "CTRL", "CTRL", "MNTR_IN", "MNTR_OUT", "PUMP", "READ_IN",
          "READ_OUT">>,
     QUBE_RIKEN_B |->
        <<"CTRL", "NA", "CTRL", "MNTR_OUT", "MNTR_IN", "CTRL", "CTRL",
          "CTRL", "CTRL", "MNTR_IN", "MNTR_OUT", "CTRL", "NA", "CTRL">>,
     QUBE_OU_A |->
        <<"READ_OUT", "READ_IN", "PUMP", "NA", "NA", "CTRL", "CTRL", "CTRL",
          "CTRL", "NA", "NA", "PUMP", "READ_IN", "READ_OUT">>,
     QUBE_OU_B |->
        <<"CTRL", "NA", "CTRL", "NA", "NA", "CTRL", "CTRL", "CTRL", "CTRL",
          "NA", "NA", "CTRL", "NA", "CTRL">>]

NUMBER_OF_CHANNELS ==
    [QUEL1_A      |-> <<4, 1, 3, 1, 3, 4, 1, 4, 1, 3, 1, 3, 4, 1>>,
     QUEL1_B      |-> <<0, 1, 3, 1, 3, 4, 1, 0, 1, 3, 1, 3, 4, 1>>,
     QUBE_RIKEN_A |-> <<1, 4, 1, 1, 4, 3, 3, 3, 3, 4, 1, 1, 4, 1>>,
     QUBE_RIKEN_B |-> <<1, 0, 1, 1, 4, 3, 3, 3, 3, 4, 1, 1, 0, 1>>,
     QUBE_OU_A    |-> <<1, 4, 1, 0, 0, 3, 3, 3, 3, 0, 0, 1, 4, 1>>,
     QUBE_OU_B    |-> <<1, 0, 1, 0, 0, 3, 3, 3, 3, 0, 0, 1, 0, 1>>]

DEFAULT_NDELAY == 7
DEFAULT_NWAIT == 0

\* The f-strings of the first if-chain of create_ports.
PortId(box_id, port_type, index) ==
    CASE port_type = "NA"       -> box_id \o ".NA" \o ToString(index)
      [] port_type = "READ_IN"  -> box_id \o ".READ" \o ToString(index) \o ".IN"
      [] port_type = "READ_OUT" -> box_id \o ".READ" \o ToString(index) \o ".OUT"
      [] port_type = "CTRL"     -> box_id \o ".CTRL" \o ToString(index)
      [] port_type = "PUMP"     -> box_id \o ".PUMP" \o ToString(index)
      [] port_type = "MNTR_IN"  -> box_id \o ".MNTR" \o ToString(index) \o ".IN"
      [] port_type = "MNTR_OUT" -> box_id \o ".MNTR" \o ToString(index) \o ".OUT"

\* Which port object the second if-chain of create_ports builds.
PortClass(port_type) ==
    CASE port_type \in {"READ_IN", "MNTR_IN"}   -> "CapPort"
      [] port_type \in {"READ_OUT", "MNTR_OUT"} -> "GenPortU"
      [] port_type \in {"CTRL", "PUMP"}         -> "GenPortL"
      [] OTHER                                  -> "invalid"

CapChannel(id, port_id, number) ==
    [id |-> id, port_id |-> port_id, number |-> number,
     fnco_freq |-> DEFAULT_FNCO_FREQ, ndelay |-> DEFAULT_NDELAY]

GenChannel(id, port_id, number) ==
    [id |-> id, port_id |-> port_id, number |-> number,
     fnco_freq |-> DEFAULT_FNCO_FREQ, nwait |-> DEFAULT_NWAIT]

CapPort(id, box_id, number, type, channels) ==
    [kind |-> "CapPort", id |-> id, box_id |-> box_id, number |-> number,
     type |-> type, channels |-> channels, lo_freq |-> DEFAULT_LO_FREQ,
     cnco_freq |-> DEFAULT_CNCO_FREQ, rfswitch |-> "open"]

GenPort(id, box_id, number, type, sideband, channels) ==
    [kind |-> "GenPort", id |-> id, box_id |-> box_id, number |-> number,
     type |-> type, channels |-> channels, sideband |-> sideband,
     lo_freq |-> DEFAULT_LO_FREQ, cnco_freq |-> DEFAULT_CNCO_FREQ,
     vatt |-> DEFAULT_VATT, fullscale_current |-> DEFAULT_FULLSCALE_CURRENT,
     rfswitch |-> "pass"]

\* The port built for one table entry; channel i of the sequence has the
\* channel number i - 1.
NewPort(box_id, port_type, port_num, index, n_channels) ==
    LET port_id == PortId(box_id, port_type, index) IN
    CASE PortClass(port_type) = "CapPort" ->
             CapPort(port_id, box_id, port_num, port_type,
                     [c \in 1..n_channels |->
                         CapChannel(port_id \o ToString(c - 1), port_id, c - 1)])
      [] PortClass(port_type) = "GenPortU" ->
             GenPort(port_id, box_id, port_num, port_type, "U",
                     [c \in 1..n_channels |->
                         GenChannel(port_id \o ToString(c - 1), port_id, c - 1)])
      [] PortClass(port_type) = "GenPortL" ->
             GenPort(port_id, box_id, port_num, port_type, "L",
                     [c \in 1..n_channels |->
                         GenChannel(port_id \o ".CH" \o ToString(c - 1),
                                    port_id, c - 1)])

ZeroPortIndex == [t \in PortTypes |-> 0]

\* The loop of create_ports from table entry pos + 1 on: the list returned,
\* or the ValueError of an entry that has no port class.
RECURSIVE create_ports_loop(_, _, _, _, _)
create_ports_loop(box_id, box_type, pos, ports, port_index) ==
    IF pos = Len(PORT_MAPPING[box_type])
    THEN [status |-> "returned", ports |-> ports]
    ELSE LET port_type == PORT_MAPPING[box_type][pos + 1] IN
         IF PortClass(port_type) = "invalid"
         THEN [status |-> "raised", ports |-> <<>>]
         ELSE create_ports_loop(
                  box_id, box_type, pos + 1,
                  Append(ports,
                         NewPort(box_id, port_type, pos,
                                 port_index[port_type],
                                 NUMBER_OF_CHANNELS[box_type][pos + 1])),
                  [port_index EXCEPT ![port_type] = @ + 1])

create_ports(box_id, box_type) ==
    create_ports_loop(box_id, box_type, 0, <<>>, ZeroPortIndex)

InitPorts ==
    /\ IdleScope
    /\ IdleCtrl /\ IdleRo /\ IdleCr
    /\ IdleTopo /\ IdleAlloc /\ IdleSeq
    /\ IdleMeasure
    /\ \E id \in BoxIds, t \in BoxTypes :
          box = [phase |-> "running", box_id |-> id, box_type |-> t,
                 pos |-> 0, ports |-> <<>>, port_index |-> ZeroPortIndex]

\* One iteration of the loop of create_ports that appends a port.
create_port ==
    /\ box.phase = "running"
    /\ box.pos < Len(PORT_MAPPING[box.box_type])
    /\ LET port_type == PORT_MAPPING[box.box_type][box.pos + 1] IN
          /\ PortClass(port_type) # "invalid"
          /\ box' = [box EXCEPT
                 !.pos = @ + 1,
                 !.ports = Append(@,
                     NewPort(box.box_id, port_type, box.pos,
                             box.port_index[port_type],
                             NUMBER_OF_CHANNELS[box.box_type][box.pos + 1])),
                 !.port_index = [@ EXCEPT ![port_type] = @ + 1]]
    /\ UNCHANGED <<scopeVars, ctrl, ro, crq, topo, alloc, seq, measureVars>>

\* The iteration that reaches the else branch of the second if-chain.
create_port_raises ==
    /\ box.phase = "running"
    /\ box.pos < Len(PORT_MAPPING[box.box_type])
    /\ PortClass(PORT_MAPPING[box.box_type][box.pos + 1]) = "invalid"
    /\ box' = [box EXCEPT !.phase = "raised"]
    /\ UNCHANGED <<scopeVars, ctrl, ro, crq, topo, alloc, seq, measureVars>>

\* The table is exhausted: return ports.
create_ports_returns ==
    /\ box.phase = "running"
    /\ box.pos = Len(PORT_MAPPING[box.box_type])
    /\ box' = [box EXCEPT !.phase = "returned"]
    /\ UNCHANGED <<scopeVars, ctrl, ro, crq, topo, alloc, seq, measureVars>>

NextPorts ==
    \/ create_port
    \/ create_port_raises
    \/ create_ports_returns

SpecPorts == InitPorts /\ [][NextPorts]_vars

\* C15: for every BoxType, create_ports returns a port list with exactly one
\* port per entry of the port-mapping table of that BoxType, in table order,
\* and every port has as many channels as the channel-count table gives for
\* its port number.
C15_PortsMatchTable ==
    /\ box.phase # "raised"
    /\ box.phase = "returned" =>
          /\ Len(box.ports) = Len(PORT_MAPPING[box.box_type])
          /\ \A i \in 1..Len(box.ports) :
                /\ box.ports[i].number = i - 1
                /\ box.ports[i].type = PORT_MAPPING[box.box_type][i]
                /\ Len(box.ports[i].channels) =
                       NUMBER_OF_CHANNELS[box.box_type][i]

(***************************************************************************)
(* Part 6.  The wiring resolver of ExperimentSystem: the maps built by the *)
(* constructor from the boxes and the WiringInfo.  A port of the wiring is *)
(* one of the port objects of the boxes and is named by its id; a target   *)
(* is the pair of its kind and the qubit it is derived from; the order of  *)
(* the items of a map (sorted by target label) is not represented.         *)
(***************************************************************************)
Muxes == {0, 1}

\* The qubits of a mux, Q{4 * mux + i} for i in range(4); resonator i of the
\* mux belongs to qubit i.
MuxQubits(mux) ==
    IF mux = 0 THEN <<"Q00", "Q01", "Q02", "Q03">>
               ELSE <<"Q04", "Q05", "Q06", "Q07">>

AllQubits == UNION {Range(MuxQubits(mux)) : mux \in Muxes}

\* The qubits a control port may be wired to in the systems explored.
CtrlQubits == {"Q00", "Q05"}

Target(kind, qubit) == <<kind, qubit>>

DerivedTargets == {"ge", "ef", "cr", "read"} \X AllQubits

\* An explicitly given port list (Box(ports=...)): ports 1, 2 and 5 of a
\* QuEL-1 type B unit, whose control port 1 has a single channel.
TypeBPorts ==
    <<NewPort("U10B", "CTRL", 1, 0, 1), NewPort("U10B", "CTRL", 2, 1, 3),
      NewPort("U10B", "MNTR_IN", 5, 0, 4)>>

\* The ports of the systems explored, box after box: a QuBE RIKEN type A
\* unit alone, and a QuEL-1 type A unit followed by the type B ports.
BoxPortLists ==
    {create_ports("R21B", "QUBE_RIKEN_A").ports,
     create_ports("Q73A", "QUEL1_A").ports \o TypeBPorts}

PortIdsOfType(ports, type) ==
    {ports[i].id : i \in {j \in 1..Len(ports) : ports[j].type = type}}

\* Association lists of disjoint pairs: no key and no port occurs twice.
DisjointPairs(keys, port_ids) ==
    UNION {{w \in [1..n -> keys \X port_ids] :
               \A i, j \in 1..n :
                   i # j => (w[i][1] # w[j][1] /\ w[i][2] # w[j][2])} :
           n \in 0..Cardinality(keys)}

WiringInfos(ports) ==
    [ctrl     : DisjointPairs(CtrlQubits, PortIdsOfType(ports, "CTRL")),
     read_out : DisjointPairs(Muxes, PortIdsOfType(ports, "READ_OUT")),
     read_in  : DisjointPairs(Muxes, PortIdsOfType(ports, "READ_IN"))]

\* The None returned by a reverse lookup that finds no pair.
NoQubit == "None"

NoMux == -1

\* The first pair of an association list whose port is the given one.
FirstKeyOf(pairs, port, none) ==
    IF \E i \in 1..Len(pairs) : pairs[i][2] = port.id
    THEN pairs[CHOOSE i \in 1..Len(pairs) :
                   /\ pairs[i][2] = port.id
                   /\ \A j \in 1..(i - 1) : pairs[j][2] # port.id][1]
    ELSE none

get_qubit_by_control_port(wiring_info, port) ==
    FirstKeyOf(wiring_info.ctrl, port, NoQubit)

get_mux_by_readout_port(wiring_info, port) ==
    IF port.kind = "CapPort"
    THEN FirstKeyOf(wiring_info.read_in, port, NoMux)
    ELSE FirstKeyOf(wiring_info.read_out, port, NoMux)

ChannelRef(channel) ==
    [id |-> channel.id, port_id |-> channel.port_id, number |-> channel.number]

\* A dict after the assignment d[key] = value.
SetItem(d, key, value) ==
    [k \in DOMAIN d \cup {key} |-> IF k = key THEN value ELSE d[k]]

\* for key, value in zip(keys, values): d[key] = value, from position i on.
RECURSIVE SetZip(_, _, _, _)
SetZip(d, keys, values, i) ==
    IF i > Len(keys) \/ i > Len(values)
    THEN d
    ELSE SetZip(SetItem(d, keys[i], values[i]), keys, values, i + 1)

EmptyMap == [k \in {} |-> 0]

ctrl_targets_swapped(qubit) ==
    <<Target("ge", qubit), Target("cr", qubit), Target("ef", qubit)>>

\* [get_ge_target, get_ef_target, get_cr_target] of the qubit.
ctrl_targets(qubit) ==
    <<Target("ge", qubit), Target("ef", qubit), Target("cr", qubit)>>

readout_targets_all(mux) ==
    [i \in 1..(2 * MuxSize) |->
        Target("read", (MuxQubits(0) \o MuxQubits(1))[i])]

\* The readout targets of the resonators of the mux, in their order.
readout_targets(mux) ==
    [i \in 1..MuxSize |-> Target("read", MuxQubits(mux)[i])]

\* The loop over the ports of _create_target_gen_channel_map from port i on.
RECURSIVE gen_channel_map_loop(_, _, _, _)
gen_channel_map_loop(ports, wiring_info, i, map) ==
    IF i > Len(ports)
    THEN map
    ELSE LET port == ports[i]
             qubit == get_qubit_by_control_port(wiring_info, port)
             mux == get_mux_by_readout_port(wiring_info, port)
         IN  CASE port.kind = "GenPort" /\ port.type = "CTRL"
                      /\ qubit # NoQubit ->
                      gen_channel_map_loop(
                          ports, wiring_info, i + 1,
                          SetZip(map, ctrl_targets(qubit),
                                 [c \in 1..Len(port.channels) |->
                                     ChannelRef(port.channels[c])], 1))
               [] port.kind = "GenPort" /\ port.type = "READ_OUT"
                      /\ mux # NoMux ->
                      gen_channel_map_loop(
                          ports, wiring_info, i + 1,
                          SetZip(map, readout_targets(mux),
                                 [c \in 1..Len(readout_targets(mux)) |->
                                     ChannelRef(port.channels[1])], 1))
               [] OTHER ->
                      gen_channel_map_loop(ports, wiring_info, i + 1, map)

create_target_gen_channel_map(ports, wiring_info) ==
    gen_channel_map_loop(ports, wiring_info, 1, EmptyMap)

cap_channels_first(port) ==
    [c \in 1..Len(port.channels) |-> ChannelRef(port.channels[1])]

\* The channels of a capture port as zipped against the readout targets.
cap_channels(port) ==
    [c \in 1..Len(port.channels) |-> ChannelRef(port.channels[c])]

\* The loop over the ports of _create_target_cap_channel_map from port i on.
RECURSIVE cap_channel_map_loop(_, _, _, _)
cap_channel_map_loop(ports, wiring_info, i, map) ==
    IF i > Len(ports)
    THEN map
    ELSE LET port == ports[i]
             mux == get_mux_by_readout_port(wiring_info, port)
         IN  IF port.kind = "CapPort" /\ port.type = "READ_IN"
                /\ mux # NoMux
             THEN cap_channel_map_loop(
                      ports, wiring_info, i + 1,
                      SetZip(map, readout_targets(mux), cap_channels(port), 1))
             ELSE cap_channel_map_loop(ports, wiring_info, i + 1, map)

create_target_cap_channel_map(ports, wiring_info) ==
    cap_channel_map_loop(ports, wiring_info, 1, EmptyMap)

\* ctrl_port_map: for qubit, gen_port in wiring_info.ctrl.
RECURSIVE ctrl_port_map(_, _, _)
ctrl_port_map(pairs, i, map) ==
    IF i > Len(pairs)
    THEN map
    ELSE ctrl_port_map(pairs, i + 1, SetItem(map, pairs[i][1], pairs[i][2]))

\* read_out_port_map and read_in_port_map: the port of a mux for the qubit of
\* each of its resonators.
RECURSIVE read_port_map(_, _, _)
read_port_map(pairs, i, map) ==
    IF i > Len(pairs)
    THEN map
    ELSE read_port_map(
             pairs, i + 1,
             SetZip(map, MuxQubits(pairs[i][1]),
                    [c \in 1..MuxSize |-> pairs[i][2]], 1))

\* _create_qubit_port_set_map: a QubitPortSet for every qubit of
\* ctrl_port_map, or the KeyError of a qubit without readout port.
create_qubit_port_set_map(wiring_info) ==
    LET ctrl_ports == ctrl_port_map(wiring_info.ctrl, 1, EmptyMap)
        read_out_ports == read_port_map(wiring_info.read_out, 1, EmptyMap)
        read_in_ports == read_port_map(wiring_info.read_in, 1, EmptyMap)
    IN  IF \A qubit \in DOMAIN ctrl_ports :
               qubit \in DOMAIN read_out_ports /\ qubit \in DOMAIN read_in_ports
        THEN [status |-> "ok",
              map |-> [qubit \in DOMAIN ctrl_ports |->
                          [ctrl_port |-> ctrl_ports[qubit],
                           read_out_port |-> read_out_ports[qubit],
                           read_in_port |-> read_in_ports[qubit]]]]
        ELSE [status |-> "KeyError", map |-> EmptyMap]

\* _configure_control_system raises for a wired control port whose number
\* of channels is neither 1 nor 3 (the searches use their default grids).
configure_raises(ports, wiring_info) ==
    \E i \in 1..Len(ports) :
        /\ ports[i].kind = "GenPort"
        /\ ports[i].type = "CTRL"
        /\ get_qubit_by_control_port(wiring_info, ports[i]) # NoQubit
        /\ Len(ports[i].channels) \notin {1, 3}

InitWiring ==
    /\ IdleScope
    /\ IdleCtrl /\ IdleRo /\ IdleCr
    /\ IdleBox /\ IdleAlloc /\ IdleSeq
    /\ IdleMeasure
    /\ \E ports \in BoxPortLists :
          \E wiring_info \in WiringInfos(ports) :
              topo = [phase |-> "wired", ports |-> ports,
                      wiring_info |-> wiring_info,
                      target_gen_channel_map |-> EmptyMap,
                      target_cap_channel_map |-> EmptyMap,
                      qubit_port_set_map |-> EmptyMap]

\* ExperimentSystem.__init__ completes: the three maps are built and the
\* allocation pass has run.
construct ==
    /\ topo.phase = "wired"
    /\ create_qubit_port_set_map(topo.wiring_info).status = "ok"
    /\ ~configure_raises(topo.ports, topo.wiring_info)
    /\ topo' = [topo EXCEPT
           !.phase = "constructed",
           !.target_gen_channel_map =
               create_target_gen_channel_map(topo.ports, topo.wiring_info),
           !.target_cap_channel_map =
               create_target_cap_channel_map(topo.ports, topo.wiring_info),
           !.qubit_port_set_map =
               create_qubit_port_set_map(topo.wiring_info).map]
    /\ UNCHANGED <<scopeVars, ctrl, ro, crq, box, alloc, seq, measureVars>>

\* ExperimentSystem.__init__ raises: no system is constructed.
construct_raises ==
    /\ topo.phase = "wired"
    /\ \/ create_qubit_port_set_map(topo.wiring_info).status # "ok"
       \/ configure_raises(topo.ports, topo.wiring_info)
    /\ topo' = [topo EXCEPT !.phase = "failed"]
    /\ UNCHANGED <<scopeVars, ctrl, ro, crq, box, alloc, seq, measureVars>>

NextWiring ==
    \/ construct
    \/ construct_raises

SpecWiring == InitWiring /\ [][NextWiring]_vars

PortById(ports, id) ==
    ports[CHOOSE i \in 1..Len(ports) : ports[i].id = id]

GenMapBinds(target, channel) ==
    /\ target \in DOMAIN topo.target_gen_channel_map
    /\ topo.target_gen_channel_map[target] = ChannelRef(channel)

GenMapBindsToPort(target, port) ==
    /\ target \in DOMAIN topo.target_gen_channel_map
    /\ topo.target_gen_channel_map[target].port_id = port.id

\* C11: for every CTRL GenPort that the wiring assigns to a qubit q: with 3
\* channels, the ge, ef and cr targets of q are bound to channels 0, 1 and 2
\* of the port in this order; with 1 channel, the ge target of q is bound to
\* channel 0 and the ef and cr targets of q have no entry from this port.
C11_CtrlChannelOrder ==
    topo.phase = "constructed" =>
        \A i \in 1..Len(topo.wiring_info.ctrl) :
            LET q == topo.wiring_info.ctrl[i][1]
                port == PortById(topo.ports, topo.wiring_info.ctrl[i][2])
            IN  /\ Len(port.channels) = 3 =>
                      /\ GenMapBinds(<<"ge", q>>, port.channels[1])
                      /\ GenMapBinds(<<"ef", q>>, port.channels[2])
                      /\ GenMapBinds(<<"cr", q>>, port.channels[3])
                /\ Len(port.channels) = 1 =>
                      /\ GenMapBinds(<<"ge", q>>, port.channels[1])
                      /\ ~GenMapBindsToPort(<<"ef", q>>, port)
                      /\ ~GenMapBindsToPort(<<"cr", q>>, port)

\* A constructed system with one qubit on a 3-channel control port and
\* another on a 1-channel control port.
C11_Witness ==
    /\ topo.phase = "constructed"
    /\ \E i, j \in 1..Len(topo.wiring_info.ctrl) :
          /\ Len(PortById(topo.ports, topo.wiring_info.ctrl[i][2]).channels) = 3
          /\ Len(PortById(topo.ports, topo.wiring_info.ctrl[j][2]).channels) = 1
          /\ <<"ef", topo.wiring_info.ctrl[i][1]>>
                 \in DOMAIN topo.target_gen_channel_map

\* C12: for every mux wired to a READ_OUT GenPort, the READ targets of its 4
\* resonators are all bound to channel 0 of that port in
\* target_gen_channel_map; for every mux wired to a READ_IN CapPort, the READ
\* target of its i-th resonator is bound to the i-th channel of that port in
\* target_cap_channel_map, for i = 0..3.
C12_ReadoutChannels ==
    topo.phase = "constructed" =>
        /\ \A k \in 1..Len(topo.wiring_info.read_out) :
              LET mux == topo.wiring_info.read_out[k][1]
                  port == PortById(topo.ports, topo.wiring_info.read_out[k][2])
              IN  \A i \in 1..4 :
                      /\ port.channels[1].number = 0
                      /\ GenMapBinds(<<"read", MuxQubits(mux)[i]>>,
                                     port.channels[1])
        /\ \A k \in 1..Len(topo.wiring_info.read_in) :
              LET mux == topo.wiring_info.read_in[k][1]
                  port == PortById(topo.ports, topo.wiring_info.read_in[k][2])
              IN  \A i \in 1..4 :
                      /\ port.channels[i].number = i - 1
                      /\ <<"read", MuxQubits(mux)[i]>>
                             \in DOMAIN topo.target_cap_channel_map
                      /\ topo.target_cap_channel_map[
                             <<"read", MuxQubits(mux)[i]>>] =
                                 ChannelRef(port.channels[i])

\* A constructed system in which both muxes have a readout-out port and a
\* readout-in port.
C12_Witness ==
    /\ topo.phase = "constructed"
    /\ Len(topo.wiring_info.read_out) = 2
    /\ Len(topo.wiring_info.read_in) = 2
    /\ Cardinality(DOMAIN topo.target_cap_channel_map) = 2 * MuxSize

\* C13: after the construction of an ExperimentSystem,
\* target_gen_channel_map has an entry for every derived target (ge, ef and
\* cr of every qubit, READ of every resonator); a target that cannot be bound
\* to a channel makes the construction fail instead of being left out.
C13_EveryTargetBound ==
    topo.phase = "constructed" =>
        \A target \in DerivedTargets :
            target \in DOMAIN topo.target_gen_channel_map

\* The mux a qubit belongs to.
MuxOfQubit(qubit) == CHOOSE mux \in Muxes : qubit \in Range(MuxQubits(mux))

\* C14: for every target bound in target_gen_channel_map, the reverse lookup
\* of the port that owns the bound channel (get_qubit_by_control_port for a
\* ge, ef or cr target, get_mux_by_readout_port for a READ target) returns
\* the qubit or the mux the target is derived from.
C14_ReverseLookup ==
    topo.phase = "constructed" =>
        \A target \in DOMAIN topo.target_gen_channel_map :
            LET port == PortById(topo.ports,
                                 topo.target_gen_channel_map[target].port_id)
            IN  IF target[1] = "read"
                THEN get_mux_by_readout_port(topo.wiring_info, port) =
                         MuxOfQubit(target[2])
                ELSE get_qubit_by_control_port(topo.wiring_info, port) =
                         target[2]

\* A constructed system whose map binds the READ targets of both muxes and
\* the control targets of a qubit of each mux.
C14_Witness ==
    /\ topo.phase = "constructed"
    /\ <<"read", "Q00">> \in DOMAIN topo.target_gen_channel_map
    /\ <<"read", "Q05">> \in DOMAIN topo.target_gen_channel_map
    /\ <<"cr", "Q00">> \in DOMAIN topo.target_gen_channel_map
    /\ <<"ge", "Q05">> \in DOMAIN topo.target_gen_channel_map

(***************************************************************************)
(* Part 7.  The allocation pass ExperimentSystem._configure_control_system *)
(* over the ports of a system, run on construction and run again on the    *)
(* allocated system.                                                       *)
(***************************************************************************)
DEFAULT_READOUT_VATT == 2048
DEFAULT_READOUT_FSC == 40527
DEFAULT_CAPTURE_DELAY == 7

\* The readout entries of the ControlParams of the system.
readout_params ==
    [readout_vatt  |-> [mux \in {0} |-> 1536],
     readout_fsc   |-> [mux \in {1} |-> 36000],
     capture_delay |-> [mux \in {0} |-> 9]]

get_readout_vatt(mux) ==
    IF mux \in DOMAIN readout_params.readout_vatt
    THEN readout_params.readout_vatt[mux]
    ELSE DEFAULT_READOUT_VATT

get_readout_fsc(mux) ==
    IF mux \in DOMAIN readout_params.readout_fsc
    THEN readout_params.readout_fsc[mux]
    ELSE DEFAULT_READOUT_FSC

get_capture_delay(mux) ==
    IF mux \in DOMAIN readout_params.capture_delay
    THEN readout_params.capture_delay[mux]
    ELSE DEFAULT_CAPTURE_DELAY

\* The quantum system of the pass: the ge, ef and cr target frequencies of
\* the wired qubits and the resonator frequencies of the muxes.
target_frequency ==
    [Q00 |-> [ge |-> 612108, ef |-> 583628, cr |-> 640000],
     Q05 |-> [ge |-> 640000, ef |-> 612108, cr |-> 760000]]

resonator_frequencies(mux) ==
    IF mux = 0 THEN <<792160, 808680, 813840, 802520>>
               ELSE <<800000, 801875, 802520, 792160>>

\* A CTRL port given explicitly with 2 channels.
TwoChannelCtrlPort == NewPort("U10B", "CTRL", 3, 2, 2)

\* The ports of the system of the pass, box after box.
AllocPorts ==
    create_ports("Q73A", "QUEL1_A").ports \o TypeBPorts
        \o <<TwoChannelCtrlPort>>

\* The state of the rf switches before the pass: as constructed, or set for
\* loopback (generator ports blocked, capture ports looped).
SwitchStates == {"default", "loopback"}

WithSwitches(ports, switches) ==
    IF switches = "default"
    THEN ports
    ELSE [i \in 1..Len(ports) |->
             [ports[i] EXCEPT !.rfswitch =
                 IF ports[i].kind = "GenPort" THEN "block" ELSE "loop"]]

\* The wirings of the pass: the control qubits on a 3-channel, a 1-channel
\* or the 2-channel control port, mux 0 with or without its readout ports.
AllocWirings ==
    [ctrl     : DisjointPairs(CtrlQubits,
                              {"Q73A.CTRL0", "U10B.CTRL0", "U10B.CTRL2"}),
     read_out : {<<>>, <<<<0, "Q73A.READ0.OUT">>>>},
     read_in  : {<<>>, <<<<0, "Q73A.READ0.IN">>>>}]

MaxPasses == 2

add_fnco_freq(channel, fnco) == [channel EXCEPT !.fnco_freq = @ + fnco]

\* channel.fnco_freq = fnco
set_fnco_freq(channel, fnco) == [channel EXCEPT !.fnco_freq = fnco]

PortResult(status, port) == [status |-> status, port |-> port]

\* The only element of a set of one element: binds the value of a search
\* once for the assignments that use it.
TheOnly(S) == CHOOSE x \in S : TRUE

\* The assignments of the READ_OUT branch, r being what the search returned.
assign_read_out(port, mux, r) ==
    IF r.status # "ok"
    THEN PortResult("raised", port)
    ELSE PortResult("ok",
             [port EXCEPT
                 !.lo_freq = r.lo,
                 !.cnco_freq = r.cnco,
                 !.sideband = "U",
                 !.vatt = get_readout_vatt(mux),
                 !.fullscale_current = get_readout_fsc(mux),
                 !.channels[1] = set_fnco_freq(@, r.fnco)])

\* The body of the loop of the pass for a READ_OUT GenPort wired to mux.
configure_read_out(port, mux) ==
    TheOnly({assign_read_out(port, mux, r) :
                r \in {find_readout_lo_nco(resonator_frequencies(mux),
                                           RoDefaults)}})

\* The assignments of the CTRL branch, r being what the search returned.
assign_ctrl(port, qubit, r) ==
    IF r.status # "ok"
    THEN PortResult("raised", port)
    ELSE PortResult("ok",
             [port EXCEPT
                 !.lo_freq = r.lo,
                 !.cnco_freq = r.cnco,
                 !.sideband = "L",
                 !.vatt = get_control_vatt(qubit),
                 !.fullscale_current = get_control_fsc(qubit),
                 !.channels = [c \in 1..Len(port.channels) |->
                                  set_fnco_freq(port.channels[c], r.fncos[c])]])

\* The body of the loop of the pass for a CTRL GenPort wired to qubit.
configure_ctrl(port, qubit) ==
    TheOnly({assign_ctrl(port, qubit, r) :
                r \in {find_control_lo_nco(Len(port.channels),
                                           target_frequency[qubit].ge,
                                           target_frequency[qubit].ef,
                                           target_frequency[qubit].cr,
                                           CtrlDefaults)}})

assign_read_in_first_channel(port, mux, r) ==
    IF r.status # "ok"
    THEN PortResult("raised", port)
    ELSE PortResult("ok",
             [port EXCEPT
                 !.lo_freq = r.lo,
                 !.cnco_freq = r.cnco,
                 !.channels[1] =
                     [set_fnco_freq(@, r.fnco)
                         EXCEPT !.ndelay = get_capture_delay(mux)]])

\* The assignments of the READ_IN branch, r being what the search returned.
assign_read_in(port, mux, r) ==
    IF r.status # "ok"
    THEN PortResult("raised", port)
    ELSE PortResult("ok",
             [port EXCEPT
                 !.lo_freq = r.lo,
                 !.cnco_freq = r.cnco,
                 !.channels = [c \in 1..Len(port.channels) |->
                                  [set_fnco_freq(port.channels[c], r.fnco)
                                      EXCEPT !.ndelay =
                                          get_capture_delay(mux)]]])

\* The body of the loop of the pass for a READ_IN CapPort wired to mux.
configure_read_in(port, mux) ==
    TheOnly({assign_read_in(port, mux, r) :
                r \in {find_readout_lo_nco(resonator_frequencies(mux),
                                           RoDefaults)}})

\* One iteration of the loop over the ports: rfswitch is assigned first,
\* then the branch of the port type runs.
configure_port(port, wiring_info) ==
    LET qubit == get_qubit_by_control_port(wiring_info, port)
        mux == get_mux_by_readout_port(wiring_info, port)
    IN  IF port.kind = "GenPort"
        THEN LET switched == [port EXCEPT !.rfswitch = "pass"] IN
             CASE port.type = "READ_OUT" /\ mux # NoMux ->
                      configure_read_out(switched, mux)
               [] port.type = "CTRL" /\ qubit # NoQubit ->
                      configure_ctrl(switched, qubit)
               [] OTHER -> PortResult("ok", switched)
        ELSE LET switched == [port EXCEPT !.rfswitch = "open"] IN
             IF port.type = "READ_IN" /\ mux # NoMux
             THEN configure_read_in(switched, mux)
             ELSE PortResult("ok", switched)

\* The loop of the pass from port i on: the ports as the pass leaves them,
\* and for a pass that raises the index of the port it was processing.
RECURSIVE configure_loop(_, _, _)
configure_loop(ports, wiring_info, i) ==
    IF i > Len(ports)
    THEN [status |-> "ok", ports |-> ports, failed |-> 0]
    ELSE LET r == configure_port(ports[i], wiring_info) IN
         IF r.status = "ok"
         THEN configure_loop([ports EXCEPT ![i] = r.port], wiring_info, i + 1)
         ELSE [status |-> "raised", ports |-> [ports EXCEPT ![i] = r.port],
               failed |-> i]

InitAlloc ==
    /\ IdleScope
    /\ IdleCtrl /\ IdleRo /\ IdleCr
    /\ IdleBox /\ IdleTopo /\ IdleSeq
    /\ IdleMeasure
    /\ \E wiring_info \in AllocWirings, switches \in SwitchStates :
          alloc = [phase |-> "wired", passes |-> 0,
                   wiring_info |-> wiring_info,
                   ports |-> WithSwitches(AllocPorts, switches),
                   before |-> <<>>, first |-> <<>>, failed |-> 0]

\* A pass of _configure_control_system that completes.
configure_control_system ==
    /\ alloc.phase \in {"wired", "allocated"}
    /\ alloc.passes < MaxPasses
    /\ LET r == configure_loop(alloc.ports, alloc.wiring_info, 1) IN
          /\ r.status = "ok"
          /\ alloc' = [alloc EXCEPT
                 !.phase = "allocated",
                 !.passes = @ + 1,
                 !.ports = r.ports,
                 !.before = alloc.ports,
                 !.first = IF alloc.passes = 0 THEN r.ports ELSE @]
    /\ UNCHANGED <<scopeVars, ctrl, ro, crq, box, topo, seq, measureVars>>

\* A pass of _configure_control_system that raises while it processes a
\* port: what it has assigned so far stays.
configure_control_system_raises ==
    /\ alloc.phase \in {"wired", "allocated"}
    /\ alloc.passes < MaxPasses
    /\ LET r == configure_loop(alloc.ports, alloc.wiring_info, 1) IN
          /\ r.status = "raised"
          /\ alloc' = [alloc EXCEPT
                 !.phase = "raised",
                 !.ports = r.ports,
                 !.before = alloc.ports,
                 !.failed = r.failed]
    /\ UNCHANGED <<scopeVars, ctrl, ro, crq, box, topo, seq, measureVars>>

NextAlloc ==
    \/ configure_control_system
    \/ configure_control_system_raises

SpecAlloc == InitAlloc /\ [][NextAlloc]_vars

\* The lo_freq and cnco_freq of a port and the fnco_freq of its channels.
FrequencyRegisters(port) ==
    [lo_freq |-> port.lo_freq, cnco_freq |-> port.cnco_freq,
     fnco_freq |-> [c \in 1..Len(port.channels) |->
                       port.channels[c].fnco_freq]]

\* C16: a second run of the allocation pass on an allocated system with the
\* same quantum system, wiring and control parameters leaves the lo_freq and
\* cnco_freq of every port and the fnco_freq of every channel equal to what
\* the first pass wrote.
C16_PassIdempotent ==
    (alloc.phase = "allocated" /\ alloc.passes >= 2) =>
        \A i \in 1..Len(alloc.ports) :
            FrequencyRegisters(alloc.ports[i]) =
                FrequencyRegisters(alloc.first[i])

\* The pass has run twice on a system with a wired 3-channel control port, a
\* wired 1-channel control port and both readout ports of mux 0, and the
\* first pass moved registers away from their defaults.
C16_Witness ==
    /\ alloc.phase = "allocated"
    /\ alloc.passes = 2
    /\ Len(alloc.wiring_info.read_out) = 1
    /\ Len(alloc.wiring_info.read_in) = 1
    /\ \E i, j \in 1..Len(alloc.wiring_info.ctrl) :
          /\ alloc.wiring_info.ctrl[i][2] = "Q73A.CTRL0"
          /\ alloc.wiring_info.ctrl[j][2] = "U10B.CTRL0"
    /\ \E i \in 1..Len(alloc.ports) :
          /\ alloc.ports[i].type = "CTRL"
          /\ alloc.ports[i].lo_freq # DEFAULT_LO_FREQ
          /\ alloc.ports[i].channels[1].fnco_freq # DEFAULT_FNCO_FREQ

C29_ReadoutPortsAgree ==
    alloc.phase = "allocated" =>
        \A i \in 1..Len(alloc.wiring_info.read_out),
           j \in 1..Len(alloc.wiring_info.read_in) :
            alloc.wiring_info.read_out[i][1] = alloc.wiring_info.read_in[j][1]
            => LET gen == PortById(alloc.ports,
                                   alloc.wiring_info.read_out[i][2])
                   cap == PortById(alloc.ports,
                                   alloc.wiring_info.read_in[j][2])
               IN  /\ gen.lo_freq = cap.lo_freq
                   /\ gen.cnco_freq = cap.cnco_freq
                   /\ \A c \in 1..Len(cap.channels) :
                          cap.channels[c].fnco_freq
                              = gen.channels[1].fnco_freq

\* The pass has configured both readout ports of mux 0, the capture port
\* having 4 channels, with registers that are not the defaults of a port.
C29_Witness ==
    /\ alloc.phase = "allocated"
    /\ Len(alloc.wiring_info.read_out) = 1
    /\ Len(alloc.wiring_info.read_in) = 1
    /\ LET gen == PortById(alloc.ports, alloc.wiring_info.read_out[1][2])
           cap == PortById(alloc.ports, alloc.wiring_info.read_in[1][2])
       IN  /\ gen.kind = "GenPort" /\ cap.kind = "CapPort"
           /\ Len(cap.channels) = 4
           /\ cap.lo_freq # DEFAULT_LO_FREQ
           /\ cap.channels[4].fnco_freq # DEFAULT_FNCO_FREQ

(***************************************************************************)
(* Part 8.  Measurement._create_sequencer: the lengths of the regions of   *)
(* a sequence and the zero-padded buffers of its targets.  Durations are   *)
(* in ns, lengths and indices in samples; index i of a buffer of the code  *)
(* is entry i + 1 of the sequence that models it.                          *)
(***************************************************************************)
DEFAULT_CAPTURE_WINDOW == 1024
DEFAULT_CAPTURE_MARGIN == 128
DEFAULT_READOUT_DURATION == 512
MIN_DURATION == 128

\* The sampling period of the backend, in ns.
SAMPLING_PERIOD == 2

\* An optional argument: None of the code, or a value.
NoArg == <<>>

Some(v) == <<v>>

\* `if arg is None: arg = default`
OrDefault(arg, default) == IF arg = NoArg THEN default ELSE arg[1]

\* A duration is a float of the code: ns whole nanoseconds and frac
\* billionths of a nanosecond, frac between -500000000 and 500000000.
Duration(ns, frac) == [ns |-> ns, frac |-> frac]

\* A duration given as a whole number of ns.
Ns(n) == Duration(n, 0)

Billion == 1000000000

\* tolerance = 1e-9, in billionths.
Tolerance == 1

\* What duration / dt exceeds its floor by, in billionths of dt.
quotient_excess(duration) ==
    (duration.ns % SAMPLING_PERIOD) * Billion + duration.frac

round_frac_truncated(duration) ==
    IF quotient_excess(duration) < 0
    THEN duration.ns \div SAMPLING_PERIOD - 1
    ELSE duration.ns \div SAMPLING_PERIOD

\* N = round(frac), frac = duration / dt: the nearest integer, the even one
\* of the two when frac lies half-way.
round_frac(duration) ==
    LET floor == duration.ns \div SAMPLING_PERIOD
        excess == quotient_excess(duration)
        half == (SAMPLING_PERIOD * Billion) \div 2
    IN  IF excess < half THEN floor
        ELSE IF excess > half THEN floor + 1
        ELSE IF floor % 2 = 0 THEN floor ELSE floor + 1

\* _number_of_samples(duration) raises for a negative duration and for one
\* with abs(frac - N) > tolerance.
number_of_samples_raises(duration) ==
    IF duration.ns < 0 \/ (duration.ns = 0 /\ duration.frac < 0)
    THEN TRUE
    ELSE LET N == round_frac(duration)
             floor == duration.ns \div SAMPLING_PERIOD
         IN  Abs(quotient_excess(duration)
                     - (N - floor) * SAMPLING_PERIOD * Billion)
                 > Tolerance * SAMPLING_PERIOD

\* The value _number_of_samples(duration) returns when it does not raise.
number_of_samples(duration) == round_frac(duration)

\* The durations _number_of_samples is called with: whole numbers of ns,
\* and durations 1e-9, 3e-9 and 0.3 ns beside them (2.3 ns among these).
SampleNs == {-2, -1, 0, 1, 2, 3, 256, 1023, 1024}

SampleFracs == {-300000000, -3, -1, 0, 1, 3, 300000000}

Durations == {Duration(n, f) : n \in SampleNs, f \in SampleFracs}

InitSamples ==
    /\ IdleScope
    /\ IdleCtrl /\ IdleRo /\ IdleCr
    /\ IdleBox /\ IdleTopo /\ IdleAlloc /\ IdleSeq
    /\ meas = [phase |-> "idle"]
    /\ \E d \in Durations : samples = [phase |-> "called", duration |-> d]

\* A call of _number_of_samples that returns N.
samples_returned ==
    /\ samples.phase = "called"
    /\ ~number_of_samples_raises(samples.duration)
    /\ samples' = [phase |-> "returned", duration |-> samples.duration,
                   N |-> number_of_samples(samples.duration)]
    /\ UNCHANGED <<scopeVars, ctrl, ro, crq, buildVars, meas>>

\* A call of _number_of_samples that raises ValueError.
samples_raised ==
    /\ samples.phase = "called"
    /\ number_of_samples_raises(samples.duration)
    /\ samples' = [phase |-> "raised", duration |-> samples.duration]
    /\ UNCHANGED <<scopeVars, ctrl, ro, crq, buildVars, meas>>

NextSamples ==
    \/ samples_returned
    \/ samples_raised

SpecSamples == InitSamples /\ [][NextSamples]_vars

\* The duration is within 1e-9 sampling periods of n sampling periods.
NearMultiple(duration, n) ==
    /\ duration.ns = n * SAMPLING_PERIOD
    /\ Abs(duration.frac) <= Tolerance * SAMPLING_PERIOD

\* C22: _number_of_samples(duration) fails for a negative duration and for a
\* duration whose quotient by the sampling period is further than 1e-9 from
\* every integer, 2.3 ns among them; for any other duration it returns the
\* integer nearest to the quotient.
C22_SamplesOrFailure ==
    samples.phase \in {"returned", "raised"} =>
        LET d == samples.duration
            negative == d.ns < 0 \/ (d.ns = 0 /\ d.frac < 0)
            near == {n \in 0..(Abs(d.ns) + 1) : NearMultiple(d, n)}
        IN  /\ (negative \/ near = {}) <=> samples.phase = "raised"
            /\ samples.phase = "returned" => near = {samples.N}
            /\ d = Duration(2, 300000000) => samples.phase = "raised"

\* _number_of_samples has returned 512 for a duration 1e-9 ns short of
\* 1024 ns.
C22_Witness ==
    /\ samples.phase = "returned"
    /\ samples.duration = Duration(1024, -1)
    /\ samples.N = 512

MaxOf(S) == CHOOSE m \in S : \A x \in S : x <= m

\* The control targets of a request and the qubit of each.
SeqTargets == {Target("ge", "Q00"), Target("ef", "Q00"), Target("ge", "Q05")}

qubit_label(target) == target[2]

\* The sample counts of the control waveforms of a request.
WaveLengths == {0, 3, 128, 129}

\* A waveform of n samples: sample k carries the value k, so that no sample
\* is zero and the order of the samples shows.
Wave(n) == [k \in 1..n |-> k]

\* The waveforms argument: a dict from some of the targets to waveforms.
WaveformMaps ==
    UNION {[D -> {Wave(n) : n \in WaveLengths}] : D \in SUBSET SeqTargets}

ControlWindows == {NoArg, Some(512), Some(255)}

CaptureWindows == {NoArg, Some(256)}

CaptureMargins == {NoArg, Some(0)}

ReadoutDurations == {NoArg, Some(256)}

\* max(len(waveform) for waveform in waveforms.values())
longest_waveform(waveforms) ==
    MaxOf({Len(waveforms[t]) : t \in DOMAIN waveforms})

\* (control_length // MIN_DURATION + 1) * MIN_DURATION
min_duration_length(n) == (n \div MIN_DURATION + 1) * MIN_DURATION

\* control_length of lines 622-628.
control_length_of(waveforms, control_window) ==
    LET rounded == min_duration_length(longest_waveform(waveforms)) IN
    IF control_window = NoArg
    THEN rounded
    ELSE LET window == number_of_samples(Ns(control_window[1])) IN
         IF window > rounded THEN window ELSE rounded

pad_control_left(waveform, control_length, total_length) ==
    [i \in 1..total_length |->
        IF i <= Len(waveform) THEN waveform[i] ELSE 0]

\* np.zeros(total_length) with the waveform assigned to the slice
\* [control_length - len(waveform), control_length).
pad_control(waveform, control_length, total_length) ==
    LET left_padding == control_length - Len(waveform) IN
    [i \in 1..total_length |->
        IF i > left_padding /\ i <= control_length
        THEN waveform[i - left_padding]
        ELSE 0]

\* The values of the readout pulse of a qubit: one sample per sampling
\* period of its duration.
readout_pulse(qubit, duration) == Wave(number_of_samples(Ns(duration)))

\* The number of indices of slice(start, stop) in a buffer of n samples.
SliceLength(start, stop, n) ==
    LET lo == IF start < n THEN start ELSE n
        hi == IF stop < n THEN stop ELSE n
    IN  IF hi > lo THEN hi - lo ELSE 0

pad_readout_never_raises(values, readout_start, total_length) == FALSE

\* The slice assignment of the readout pulse raises when the pulse has
\* neither the length of the slice nor a single sample.
pad_readout_raises(values, readout_start, total_length) ==
    /\ Len(values) # SliceLength(readout_start, readout_start + Len(values),
                                 total_length)
    /\ Len(values) # 1

pad_readout_to_pulse_end(values, readout_start, total_length) ==
    [i \in 1..(readout_start + Len(values)) |->
        IF i > readout_start THEN values[i - readout_start] ELSE 0]

\* np.zeros(total_length) with the readout pulse assigned to the slice
\* [readout_start, readout_start + readout_length); the phase factor the
\* buffer is multiplied by leaves zero samples zero and the others nonzero.
pad_readout(values, readout_start, total_length) ==
    LET n == SliceLength(readout_start, readout_start + Len(values),
                         total_length)
    IN  [i \in 1..total_length |->
            IF i > readout_start /\ i <= readout_start + n
            THEN IF Len(values) = 1 THEN values[1] ELSE values[i - readout_start]
            ELSE 0]

\* The request of a call: the arguments of _create_sequencer.
Requests ==
    [waveforms : WaveformMaps,
     control_window : ControlWindows,
     capture_window : CaptureWindows,
     capture_margin : CaptureMargins,
     readout_duration : ReadoutDurations]

\* The call raises, at the first of: no waveform to take the maximum of, a
\* duration that is not a number of samples, a readout pulse that does not
\* fit its slice.
create_sequencer_fails(req) ==
    LET capture_window == OrDefault(req.capture_window, DEFAULT_CAPTURE_WINDOW)
        capture_margin == OrDefault(req.capture_margin, DEFAULT_CAPTURE_MARGIN)
        readout_duration ==
            OrDefault(req.readout_duration, DEFAULT_READOUT_DURATION)
    IN  IF DOMAIN req.waveforms = {} THEN TRUE
        ELSE IF req.control_window # NoArg
                   /\ number_of_samples_raises(Ns(req.control_window[1]))
             THEN TRUE
        ELSE IF number_of_samples_raises(Ns(capture_margin)) THEN TRUE
        ELSE IF number_of_samples_raises(Ns(capture_window)) THEN TRUE
        ELSE IF number_of_samples_raises(Ns(readout_duration)) THEN TRUE
        ELSE LET control_length ==
                     control_length_of(req.waveforms, req.control_window)
                 readout_start ==
                     control_length + number_of_samples(Ns(capture_margin))
                 total_length ==
                     readout_start + number_of_samples(Ns(capture_window))
             IN  pad_readout_raises(readout_pulse("Q00", readout_duration),
                                    readout_start, total_length)

\* The sequence a call that does not raise builds.
sequencer(req) ==
    LET capture_window == OrDefault(req.capture_window, DEFAULT_CAPTURE_WINDOW)
        capture_margin == OrDefault(req.capture_margin, DEFAULT_CAPTURE_MARGIN)
        readout_duration ==
            OrDefault(req.readout_duration, DEFAULT_READOUT_DURATION)
        qubits == {qubit_label(target) : target \in DOMAIN req.waveforms}
        control_length == control_length_of(req.waveforms, req.control_window)
        margin_length == number_of_samples(Ns(capture_margin))
        capture_length == number_of_samples(Ns(capture_window))
        readout_length == number_of_samples(Ns(readout_duration))
        total_length == control_length + margin_length + capture_length
        readout_start == control_length + margin_length
    IN  [control_length |-> control_length,
         margin_length |-> margin_length,
         capture_length |-> capture_length,
         readout_length |-> readout_length,
         total_length |-> total_length,
         readout_start |-> readout_start,
         control_waveforms |->
             [target \in DOMAIN req.waveforms |->
                 pad_control(req.waveforms[target], control_length,
                             total_length)],
         readout_waveforms |->
             [qubit \in qubits |->
                 pad_readout(readout_pulse(qubit, readout_duration),
                             readout_start, total_length)],
         cap_sequences |->
             [qubit \in qubits |->
                 [prev_blank |-> readout_start,
                  duration |-> capture_length,
                  original_duration |-> capture_window]]]

InitSeq ==
    /\ IdleScope
    /\ IdleCtrl /\ IdleRo /\ IdleCr
    /\ IdleBox /\ IdleTopo /\ IdleAlloc
    /\ IdleMeasure
    /\ \E req \in Requests : seq = [phase |-> "requested", request |-> req]

\* A call of _create_sequencer that returns the sequence.
create_sequencer ==
    /\ seq.phase = "requested"
    /\ ~create_sequencer_fails(seq.request)
    /\ seq' = [phase |-> "built", request |-> seq.request,
               sequence |-> sequencer(seq.request)]
    /\ UNCHANGED <<scopeVars, ctrl, ro, crq, box, topo, alloc, measureVars>>

\* A call of _create_sequencer that raises: nothing is built.
create_sequencer_raises ==
    /\ seq.phase = "requested"
    /\ create_sequencer_fails(seq.request)
    /\ seq' = [phase |-> "invalid", request |-> seq.request]
    /\ UNCHANGED <<scopeVars, ctrl, ro, crq, box, topo, alloc, measureVars>>

NextSeq ==
    \/ create_sequencer
    \/ create_sequencer_raises

SpecSeq == InitSeq /\ [][NextSeq]_vars

\* C19: in a built sequence every control waveform of length L sits in a
\* buffer of total_length samples, its samples in their order at the indices
\* [control_length - L, control_length) and every other index zero, so that
\* its last sample is the one before the control/margin boundary.
C19_RightAligned ==
    seq.phase = "built" =>
        \A target \in DOMAIN seq.request.waveforms :
            LET waveform == seq.request.waveforms[target]
                L == Len(waveform)
                buffer == seq.sequence.control_waveforms[target]
                control_length == seq.sequence.control_length
            IN  /\ Len(buffer) = seq.sequence.total_length
                /\ control_length - L >= 0
                /\ SubSeq(buffer, control_length - L + 1, control_length)
                       = waveform
                /\ \A i \in 0..(Len(buffer) - 1) :
                       (i < control_length - L \/ i >= control_length)
                           => buffer[i + 1] = 0
                /\ L > 0 => buffer[control_length] = waveform[L]

\* A sequence is built from waveforms of 3 and of 129 samples, with a control
\* window that lengthens the control region beyond the rounded length.
C19_Witness ==
    /\ seq.phase = "built"
    /\ \E t, u \in DOMAIN seq.request.waveforms :
          /\ Len(seq.request.waveforms[t]) = 3
          /\ Len(seq.request.waveforms[u]) = 129
          /\ seq.sequence.control_waveforms[t][seq.sequence.control_length] = 3
    /\ seq.request.control_window # NoArg
    /\ seq.sequence.control_length = 256
    /\ seq.sequence.total_length > seq.sequence.control_length

\* C20: with no control_window the control_length of a built sequence is the
\* smallest multiple of MIN_DURATION that is not less than the length of the
\* longest control waveform.
C20_RoundedUp ==
    (seq.phase = "built" /\ seq.request.control_window = NoArg) =>
        LET longest == longest_waveform(seq.request.waveforms)
            control_length == seq.sequence.control_length
        IN  /\ control_length % MIN_DURATION = 0
            /\ control_length >= longest
            /\ control_length - MIN_DURATION < longest

\* C26: every built sequence has total_length = control_length +
\* margin_length + capture_length and readout_start = control_length +
\* margin_length, every generated buffer has total_length samples, and every
\* capture descriptor has prev_blank = readout_start and a slot of duration
\* capture_length.
C26_RegionLengths ==
    seq.phase = "built" =>
        LET sq == seq.sequence
            margin == OrDefault(seq.request.capture_margin,
                                DEFAULT_CAPTURE_MARGIN)
            window == OrDefault(seq.request.capture_window,
                                DEFAULT_CAPTURE_WINDOW)
        IN  /\ sq.margin_length * SAMPLING_PERIOD = margin
            /\ sq.capture_length * SAMPLING_PERIOD = window
            /\ sq.total_length =
                   sq.control_length + sq.margin_length + sq.capture_length
            /\ sq.readout_start = sq.control_length + sq.margin_length
            /\ \A t \in DOMAIN sq.control_waveforms :
                   Len(sq.control_waveforms[t]) = sq.total_length
            /\ \A q \in DOMAIN sq.readout_waveforms :
                   Len(sq.readout_waveforms[q]) = sq.total_length
            /\ \A q \in DOMAIN sq.cap_sequences :
                   /\ sq.cap_sequences[q].prev_blank = sq.readout_start
                   /\ sq.cap_sequences[q].duration = sq.capture_length

\* A sequence is built for targets of two qubits with a capture window longer
\* than the readout pulse and no capture margin.
C26_Witness ==
    /\ seq.phase = "built"
    /\ DOMAIN seq.sequence.cap_sequences = {"Q00", "Q05"}
    /\ seq.request.capture_margin = Some(0)
    /\ seq.sequence.capture_length > seq.sequence.readout_length
    /\ seq.sequence.readout_start = seq.sequence.control_length

DEFAULT_INTERVAL == 153600

INTERVAL_STEP == 10240

MaxBatch == 2

\* The waveforms arguments of the calls: no target, one target with 3
\* samples, two targets with 128 and 3 samples.
MeasureWaveforms ==
    {<<>>,
     [t \in {Target("ge", "Q00")} |-> Wave(3)],
     [t \in {Target("ge", "Q00"), Target("ge", "Q05")} |->
         IF t[2] = "Q00" THEN Wave(128) ELSE Wave(3)]}

WaveformLists == UNION {[1..n -> MeasureWaveforms] : n \in 0..MaxBatch}

\* The keyword arguments of a call of measure or measure_batch.
MeasureArgs ==
    [interval : {NoArg, Some(0)},
     control_window : {NoArg, Some(240), Some(1024)},
     capture_window : {NoArg, Some(10000)},
     capture_margin : {NoArg, Some(127)},
     readout_duration : {NoArg}]

\* _calc_backend_interval raises when there is no waveform to take the
\* maximum of.
calc_backend_interval_raises(waveforms) == DOMAIN waveforms = {}

\* _calc_backend_interval
calc_backend_interval(waveforms, interval, control_window, capture_window) ==
    LET control_length == longest_waveform(waveforms)
        control_duration == control_length * SAMPLING_PERIOD
        widened == IF control_window # NoArg
                      /\ control_window[1] > control_duration
                   THEN control_window[1]
                   ELSE control_duration
    IN  ((widened + capture_window + interval) \div INTERVAL_STEP + 1)
            * INTERVAL_STEP

\* The arguments measure and measure_batch call _create_sequencer with for
\* one waveforms argument: control_window is not among them.
sequencer_request(args, waveforms) ==
    [waveforms |-> waveforms,
     control_window |-> NoArg,
     capture_window |->
         Some(OrDefault(args.capture_window, DEFAULT_CAPTURE_WINDOW)),
     capture_margin |-> args.capture_margin,
     readout_duration |-> args.readout_duration]

\* Building the sequence of one waveforms argument raises.
build_raises(args, waveforms) ==
    IF calc_backend_interval_raises(waveforms) THEN TRUE
    ELSE create_sequencer_fails(sequencer_request(args, waveforms))

\* The Sequencer built for one waveforms argument: the sequence with the
\* backend interval as its interval.
build(args, waveforms) ==
    [sequence |-> sequencer(sequencer_request(args, waveforms)),
     interval |->
         calc_backend_interval(
             waveforms,
             OrDefault(args.interval, DEFAULT_INTERVAL),
             args.control_window,
             OrDefault(args.capture_window, DEFAULT_CAPTURE_WINDOW))]

\* A call on the device controller.
DeviceCall(op, sq) == [op |-> op, sequencer |-> sq]

NoSequencer == [interval |-> 0]

ExecutionCalls == {"execute_sequencer", "execute_sequence", "execute"}

measure_executes_first(args, waveforms) ==
    <<DeviceCall("execute_sequencer", NoSequencer)>>

\* The calls measure makes on the device controller: execute_sequencer with
\* the sequencer, once it is built.
measure_device_calls(args, waveforms) ==
    IF build_raises(args, waveforms)
    THEN <<>>
    ELSE <<DeviceCall("execute_sequencer", build(args, waveforms))>>

waveforms_from_last(waveforms_list, i) ==
    waveforms_list[Len(waveforms_list) + 1 - i]

\* `for waveforms in waveforms_list`: the element of iteration i.
waveforms_of(waveforms_list, i) == waveforms_list[i]

\* DeviceController.execute_sequencer: the result of the sequencer.
execute_sequencer(sq) == [of |-> 1, data |-> sq.interval]

\* DeviceController.execute: one result for each sequencer of the command
\* queue, in the order of the queue.
execute(queue) ==
    [k \in 1..Len(queue) |-> [of |-> k, data |-> queue[k].interval]]

\* The sequencers in the command queue of the device controller after the
\* calls of a log.
command_queue(log) ==
    LET added == SelectSeq(log, LAMBDA c : c.op = "add_sequencer") IN
    [k \in 1..Len(added) |-> added[k].sequencer]

InitMeasure ==
    /\ IdleScope
    /\ IdleCtrl /\ IdleRo /\ IdleCr
    /\ IdleBox /\ IdleTopo /\ IdleAlloc /\ IdleSeq
    /\ samples = [phase |-> "idle"]
    /\ \/ \E args \in MeasureArgs, waveforms \in MeasureWaveforms :
             meas = [phase |-> "called", method |-> "measure", args |-> args,
                     waveforms_list |-> <<waveforms>>,
                     log |-> <<>>, i |-> 1, returned |-> <<>>,
                     yielded |-> <<>>]
       \/ \E args \in MeasureArgs, waveforms_list \in WaveformLists :
             meas = [phase |-> "called", method |-> "measure_batch",
                     args |-> args, waveforms_list |-> waveforms_list,
                     log |-> <<>>, i |-> 1, returned |-> <<>>,
                     yielded |-> <<>>]

\* measure builds the sequencer, executes it and returns the result.
measure ==
    /\ meas.phase = "called"
    /\ meas.method = "measure"
    /\ ~build_raises(meas.args, meas.waveforms_list[1])
    /\ LET calls == measure_device_calls(meas.args, meas.waveforms_list[1])
           backend_result == execute_sequencer(calls[1].sequencer)
       IN  meas' = [meas EXCEPT !.phase = "returned",
                                !.log = calls,
                                !.returned = <<backend_result>>,
                                !.yielded = <<backend_result>>]
    /\ UNCHANGED <<scopeVars, ctrl, ro, crq, buildVars, samples>>

\* measure raises while it builds the sequencer.
measure_raises ==
    /\ meas.phase = "called"
    /\ meas.method = "measure"
    /\ build_raises(meas.args, meas.waveforms_list[1])
    /\ meas' = [meas EXCEPT
                   !.phase = "raised",
                   !.log = measure_device_calls(meas.args,
                                                meas.waveforms_list[1])]
    /\ UNCHANGED <<scopeVars, ctrl, ro, crq, buildVars, samples>>

\* measure_batch up to its loop: the command queue is cleared.
batch_clear ==
    /\ meas.phase = "called"
    /\ meas.method = "measure_batch"
    /\ meas' = [meas EXCEPT
                   !.phase = "adding",
                   !.log = Append(@, DeviceCall("clear_command_queue",
                                                NoSequencer))]
    /\ UNCHANGED <<scopeVars, ctrl, ro, crq, buildVars, samples>>

\* An iteration of the loop of measure_batch: the sequencer of the element
\* is built and added to the command queue.
batch_add ==
    /\ meas.phase = "adding"
    /\ meas.i <= Len(meas.waveforms_list)
    /\ LET waveforms == waveforms_of(meas.waveforms_list, meas.i) IN
          /\ ~build_raises(meas.args, waveforms)
          /\ meas' = [meas EXCEPT
                         !.i = @ + 1,
                         !.log = Append(@, DeviceCall("add_sequencer",
                                               build(meas.args, waveforms)))]
    /\ UNCHANGED <<scopeVars, ctrl, ro, crq, buildVars, samples>>

\* An iteration of the loop of measure_batch raises while it builds the
\* sequencer of the element.
batch_add_raises ==
    /\ meas.phase = "adding"
    /\ meas.i <= Len(meas.waveforms_list)
    /\ build_raises(meas.args, waveforms_of(meas.waveforms_list, meas.i))
    /\ meas' = [meas EXCEPT !.phase = "raised"]
    /\ UNCHANGED <<scopeVars, ctrl, ro, crq, buildVars, samples>>

\* measure_batch after its loop: the command queue is executed.
batch_execute ==
    /\ meas.phase = "adding"
    /\ meas.i > Len(meas.waveforms_list)
    /\ LET backend_results == execute(command_queue(meas.log)) IN
       meas' = [meas EXCEPT
                   !.phase = IF backend_results = <<>>
                             THEN "returned" ELSE "yielding",
                   !.log = Append(@, DeviceCall("execute", NoSequencer)),
                   !.returned = backend_results]
    /\ UNCHANGED <<scopeVars, ctrl, ro, crq, buildVars, samples>>

\* measure_batch yields the result of the next backend result.
batch_yield ==
    /\ meas.phase = "yielding"
    /\ LET k == Len(meas.yielded) + 1 IN
       meas' = [meas EXCEPT
                   !.phase = IF k = Len(meas.returned)
                             THEN "returned" ELSE "yielding",
                   !.yielded = Append(@, meas.returned[k])]
    /\ UNCHANGED <<scopeVars, ctrl, ro, crq, buildVars, samples>>

NextMeasure ==
    \/ measure
    \/ measure_raises
    \/ batch_clear
    \/ batch_add
    \/ batch_add_raises
    \/ batch_execute
    \/ batch_yield

SpecMeasure == InitMeasure /\ [][NextMeasure]_vars

\* The positions of a log whose call hands a built sequencer to the device
\* controller, and the waveforms argument the sequencer at position k of the
\* log of the running call was built for.
HandsSequencer(log) ==
    {k \in 1..Len(log) : log[k].op \in {"execute_sequencer", "add_sequencer"}}

WaveformsAt(k) ==
    IF meas.method = "measure"
    THEN meas.waveforms_list[1]
    ELSE meas.waveforms_list[k - 1]

\* C21: when measure or measure_batch is called with a control_window, every
\* sequence handed to the device controller has a control region of at least
\* that window: control_length >= _number_of_samples(control_window).
C21_ControlWindowHonoured ==
    (meas.phase # "idle" /\ meas.args.control_window # NoArg) =>
        \A k \in HandsSequencer(meas.log) :
            meas.log[k].sequencer.sequence.control_length
                >= number_of_samples(Ns(meas.args.control_window[1]))

\* C23: when building the sequence of a measure call, or of an element of a
\* measure_batch call, has failed, the call has made no execution call
\* (execute_sequencer, execute_sequence, execute) on the device controller.
C23_NoExecutionAfterFailure ==
    meas.phase = "raised" =>
        \A k \in 1..Len(meas.log) : meas.log[k].op \notin ExecutionCalls

\* measure_batch has failed on an element with waveforms because the capture
\* margin is no whole number of samples, the command queue having been
\* cleared.
C23_Witness ==
    /\ meas.phase = "raised"
    /\ meas.method = "measure_batch"
    /\ meas.args.capture_margin = Some(127)
    /\ DOMAIN meas.waveforms_list[meas.i] # {}
    /\ Len(meas.log) = 1

\* C24: a measure_batch run first clears the command queue, then adds one
\* sequence for each element of waveforms_list, in the order of the list,
\* then makes a single execute call after the last add, and yields the
\* results in the order the device controller returned them.
C24_BatchOrder ==
    (meas.phase # "idle" /\ meas.method = "measure_batch") =>
        LET n == Len(meas.waveforms_list) IN
        /\ Len(meas.log) <= n + 2
        /\ \A k \in 1..Len(meas.log) :
               IF k = 1 THEN meas.log[k].op = "clear_command_queue"
               ELSE IF k <= n + 1
               THEN /\ meas.log[k].op = "add_sequencer"
                    /\ ~build_raises(meas.args, meas.waveforms_list[k - 1])
                    /\ meas.log[k].sequencer =
                           build(meas.args, meas.waveforms_list[k - 1])
               ELSE meas.log[k].op = "execute"
        /\ meas.phase \in {"yielding", "returned"} =>
               /\ Len(meas.log) = n + 2
               /\ Len(meas.returned) = n
               /\ meas.yielded = SubSeq(meas.returned, 1, Len(meas.yielded))
        /\ meas.phase = "returned" => meas.yielded = meas.returned
        /\ meas.phase \in {"called", "adding", "raised"} => meas.yielded = <<>>

\* A measure_batch run over two different elements has yielded its two
\* results.
C24_Witness ==
    /\ meas.method = "measure_batch"
    /\ meas.phase = "returned"
    /\ Len(meas.waveforms_list) = 2
    /\ meas.waveforms_list[1] # meas.waveforms_list[2]
    /\ Len(meas.yielded) = 2
    /\ meas.yielded[1].of = 1 /\ meas.yielded[2].of = 2
    /\ meas.yielded[1].data # meas.yielded[2].data

\* C25: the backend_interval of every measured sequence is max(control
\* duration, control_window) + capture_window + interval of its own
\* waveforms rounded up to the grid of INTERVAL_STEP: a multiple of the
\* step, not less than that value, and the smallest such multiple.
C25_IntervalRoundedUp ==
    meas.phase # "idle" =>
        \A k \in HandsSequencer(meas.log) :
            LET duration == longest_waveform(WaveformsAt(k)) * SAMPLING_PERIOD
                window == OrDefault(meas.args.control_window, 0)
                value == (IF window > duration THEN window ELSE duration)
                             + OrDefault(meas.args.capture_window,
                                         DEFAULT_CAPTURE_WINDOW)
                             + OrDefault(meas.args.interval, DEFAULT_INTERVAL)
                backend_interval == meas.log[k].sequencer.interval
            IN  /\ backend_interval % INTERVAL_STEP = 0
                /\ backend_interval >= value
                /\ backend_interval - INTERVAL_STEP < value

\* C28: the backend_interval measure hands to the device controller is not
\* shorter than the sequence it goes with: backend_interval >= total_length *
\* SAMPLING_PERIOD.
C28_NoShotOverlap ==
    (meas.phase = "returned" /\ meas.method = "measure") =>
        meas.log[1].sequencer.interval
            >= meas.log[1].sequencer.sequence.total_length * SAMPLING_PERIOD

Init ==
    /\ InitScope
    /\ IdleCtrl /\ IdleRo /\ IdleCr
    /\ IdleBox /\ IdleTopo /\ IdleAlloc /\ IdleSeq
    /\ IdleMeasure

Next ==
    \/ \E m \in CompletingMaps : EnterScope(m)
    \/ \E c \in FailingCalls : EnterScopeFails(c[1], c[2])
    \/ BodyRaises
    \/ ExitScope
    \/ \E n \in 0..MaxMapLen : ExitScopeFails(n)
    \/ Handled

Spec == Init /\ [][Next]_vars

====
